---- MODULE Spec2Model ----
(***************************************************************************)
(* block-crawler: the bounded-concurrency scheduler (ConcurrentExecutor /  *)
(* CrawlerOrchestrator.processAllLinks), the per-link lifecycle            *)
(* (LinkExecutor.execute), the block processor (BlockProcessor) in its     *)
(* three modes, the page processor, the run wrapper with its cleanup, the  *)
(* single-page test mode (TestMode.execute) and the signal handlers.       *)
(***************************************************************************)
EXTENDS Integers, Sequences, FiniteSets, TLC

\* ---------------------------------------------------------------- bounds
MaxLinks == 2          \* longest collections sequence explored
MaxConcurrency == 2    \* largest config.maxConcurrency explored
MaxBlocks == 2         \* most blocks a page exposes
MaxBatches == 2        \* most re-queries of a progressive page
NumSections == 2       \* length of blockSectionConfigs in the multi mode
MaxMatches == 2        \* most matches of the free text on a page or in a block

\* ------------------------------------------------------------ vocabulary
LinkA == <<"/", "a">>
LinkB == <<"/", "b">>
LinkPaths == {LinkA, LinkB}

Modes == {"traditional", "progressive", "multi", "page"}
MismatchPolicies == {"noExpected", "skipOnMismatch", "ignoreMismatch"}
ErrKinds == {"none", "error", "abort", "ambiguous"}

\* the block count a CollectionLink declares when it declares one
ExpectedBlockCount == 1

SeqsUpTo(S, n) == UNION {[1..k -> S] : k \in 1..n}

\* an anchor of the start page without href attribute
NoHref == <<>>

\* LinkExtractor.extract: the links of one section, in document order; an
\* anchor without href is dropped
RECURSIVE extract(_)
extract(section) ==
    IF section = <<>> THEN <<>>
    ELSE (IF Head(section) = NoHref THEN <<>> ELSE <<Head(section)>>)
         \o extract(Tail(section))

\* LinkCollector.run: the links of every section, appended in section order
RECURSIVE collect(_)
collect(sections) ==
    IF sections = <<>> THEN <<>>
    ELSE extract(Head(sections)) \o collect(Tail(sections))

\* the start pages explored: one or two sections of up to MaxLinks anchors
StartPages ==
    SeqsUpTo({<<>>} \cup SeqsUpTo(LinkPaths \cup {NoHref}, MaxLinks), 2)

\* the collections sequences collect.json can hold
Collections ==
    {c \in {collect(sp) : sp \in StartPages} : Len(c) \in 1..MaxLinks}

\* link.startsWith("/") ? link.slice(1) : link
NormalizePagePath(link) ==
    IF Len(link) > 0 /\ Head(link) = "/" THEN Tail(link) ELSE link

\* the name the page shows for its k-th block
BlockName(k) == <<ToString(k)>>

\* a block path made of the block name alone
BlockPathWithoutPage(normalizedUrlPath, blockName) == blockName

\* performPreChecks: blockPath = `${normalizedUrlPath}/${blockName}`
BlockPath(normalizedUrlPath, blockName) ==
    normalizedUrlPath \o <<"/">> \o blockName

\* progress.json / free.json contents an earlier run can have left behind
Preloads ==
    { [pages |-> {}, blocks |-> {}, free |-> {}],
      [pages |-> {NormalizePagePath(LinkA)}, blocks |-> {}, free |-> {}],
      [pages |-> {},
       blocks |-> {BlockPath(NormalizePagePath(LinkA), BlockName(1))},
       free |-> {LinkB}],
      [pages |-> {NormalizePagePath(LinkA)}, blocks |-> {},
       free |-> {LinkA, LinkB}] }

\* ----------------------------------------------------------------- state
VARIABLES
    cfg,            \* immutable run configuration
    runPc,          \* position of run() / TestMode.execute
    pc,             \* position of every link task
    err,            \* error a link task is carrying to its caller
    nblocks,        \* blocks located so far by a task's block processor
    batch,          \* blocks of the current batch still to process, in order
    queries,        \* locator queries a task's block processor has made
    cnt,            \* completedCount of a task's block processor
    res,            \* result of processSingleBlock per task and block
    processedNames, \* processedBlockNamesSet of the progressive mode
    pageMarked,     \* the task's block processor marked its page complete
    threw,          \* a block handler of the task threw a non-abort error
    pageThrew,      \* the page handler of the task threw
    outcome,        \* how the scheduler accounted the task
    completed,      \* ConcurrentExecutor.completed
    failed,         \* ConcurrentExecutor.failed
    knownFreePages, \* set loaded by loadKnownFreePages
    mem,            \* in-memory recorders: progress, free record, mapping
    disk,           \* what is saved on disk
    openTabs,       \* tasks whose own tab is open
    openCtx,        \* tasks whose independent browser context is open
    primaryOpen,    \* the primary page handed in by the test runner is open
    isComplete,     \* flag handed to cleanup()
    meta,           \* the isComplete flag of meta.json on disk, if saved
    run,            \* 1 in the first run over collect.json, 2 in a re-run
    firstRun,       \* in a re-run: how the links of the first run ended
    loaded,         \* what the recorders loaded from disk in initialize()
    previousCompletedPages, \* ConcurrentExecutor.previousCompletedPages
    pageMatches,    \* matches the page-level free check counted, -1 before it
    blockMatches,   \* matches the free check of a block counted, -1 if none
    nameTry,        \* one block in getBlockNameWithRetry and the pre-checks
    pauseRun,       \* one error path of a run and whether it paused the page
    prog,           \* one call of processBlocksProgressively on one page
    sched,          \* executeAll on one plan with maxConcurrency 1 and more
    coll,           \* one entry into the collect phase
    files,          \* the output files written by the auto-extractor
    scroll,         \* one call of autoScrollToBottom
    auth,           \* runs of AuthManager.ensureAuth over one state directory
    inj,            \* one call of ScriptInjector.injectScripts on one page
    exec,           \* the steps of one call of LinkExecutor.execute, in order
    san,            \* one file name and what sanitizeFilename made of it
    rec,            \* a FreeRecorder, the free.json it saves and a fresh one loading it
    clk             \* one call of clickAndVerify

\* the variables of the crawl
mainVars == <<cfg, runPc, pc, err, nblocks, batch, queries, cnt, res,
              processedNames, pageMarked, threw, outcome, completed, failed,
              knownFreePages, mem, disk, openTabs, openCtx, primaryOpen,
              isComplete, run, firstRun, loaded, previousCompletedPages,
              pageMatches, blockMatches, pageThrew, meta>>

\* the variables of the components that are modelled on their own
sideVars == <<nameTry, pauseRun, prog, sched, coll, files, scroll, auth, inj, exec, san, rec, clk>>

vars == <<mainVars, sideVars>>

Tasks == 1..Len(cfg.collections)
Link(i) == cfg.collections[i]
PagePath(i) == NormalizePagePath(Link(i))

\* the locals of a task's BlockProcessor
procVars == <<nblocks, batch, queries, cnt, res, processedNames, pageMarked>>
taskVars == <<pc, err, procVars, threw>>
runVars == <<run, firstRun, loaded, previousCompletedPages>>
freeVars == <<pageMatches, blockMatches>>

\* pages of a crawl over several links expose at most one block each; a
\* single-link run explores pages of up to MaxBlocks blocks
SiteBlocks == IF Len(cfg.collections) = 1 THEN MaxBlocks ELSE 1

Configs ==
    { c \in [entry : {"crawl", "test"},
             mode : Modes,
             mismatch : MismatchPolicies,
             maxConcurrency : 1..MaxConcurrency,
             storageState : BOOLEAN,
             collections : Collections] :
        \* expectedBlockCount is read by the traditional mode only
        /\ c.mode # "traditional" => c.mismatch = "noExpected"
        /\ Len(c.collections) > 1 => c.mismatch = "noExpected"
        \* the test mode handles one page on the primary page, without
        \* scheduler, mismatch recorder or storage state
        /\ c.entry = "test" =>
              /\ Len(c.collections) = 1
              /\ c.maxConcurrency = 1
              /\ c.storageState = FALSE
              /\ c.mismatch = "noExpected" }

MainInit ==
    /\ cfg \in Configs
    /\ runPc = "start"
    /\ pc = [i \in Tasks |-> "queued"]
    /\ err = [i \in Tasks |-> "none"]
    /\ nblocks = [i \in Tasks |-> 0]
    /\ batch = [i \in Tasks |-> <<>>]
    /\ queries = [i \in Tasks |-> 0]
    /\ cnt = [i \in Tasks |-> 0]
    /\ res = [i \in Tasks |-> [k \in 1..MaxBlocks |-> "none"]]
    /\ processedNames = [i \in Tasks |-> {}]
    /\ pageMarked = [i \in Tasks |-> FALSE]
    /\ threw = [i \in Tasks |-> FALSE]
    /\ pageThrew = [i \in Tasks |-> FALSE]
    /\ outcome = [i \in Tasks |-> "none"]
    /\ completed = 0
    /\ failed = 0
    /\ knownFreePages = {}
    /\ \E p \in Preloads :
          /\ mem = [completedPages |-> p.pages, completedBlocks |-> p.blocks,
                    freePages |-> p.free, freeBlocks |-> {},
                    blocksByPage |-> {}, mismatches |-> {},
                    mapping |-> {}]
          /\ disk = mem
          /\ loaded = mem
    /\ openTabs = {}
    /\ openCtx = {}
    /\ primaryOpen = TRUE
    /\ isComplete = FALSE
    /\ meta = "absent"
    /\ run = 1
    /\ firstRun = [success |-> FALSE, recorded |-> FALSE, dispatched |-> FALSE]
    /\ previousCompletedPages = 0
    /\ pageMatches = [i \in Tasks |-> -1]
    /\ blockMatches = [i \in Tasks |-> [k \in 1..MaxBlocks |-> -1]]

\* no component modelled on its own has been entered
NameIdle ==
    nameTry = [results |-> <<>>, stage |-> "idle", attempt |-> 0, waits |-> 0,
               name |-> "", handler |-> FALSE, marked |-> FALSE,
               counted |-> "none"]

PauseIdle ==
    pauseRun = [env |-> <<>>, pauseOnError |-> FALSE, path |-> "none",
                paused |-> FALSE]

ProgIdle ==
    prog = [kinds |-> <<>>, total |-> 0, shown |-> 0, pc |-> "idle",
            batch |-> <<>>, processedBlockNamesSet |-> {},
            completedCount |-> 0, marked |-> FALSE]

SchedIdle == sched = [collections |-> <<>>]

CollIdle == coll = [pc |-> "idle"]

FilesIdle == files = [blocks |-> <<>>, written |-> {}]

ScrollIdle == scroll = [pc |-> "idle"]

AuthIdle == auth = [pc |-> "idle"]

InjectIdle == inj = [pc |-> "idle"]

ExecIdle == exec = [pc |-> "idle"]

SanitizeIdle == san = [applied |-> -1]

FreeIdle == rec = [pc |-> "idle"]

ClickIdle == clk = [pc |-> "idle"]

SideIdle ==
    /\ NameIdle
    /\ PauseIdle
    /\ ProgIdle
    /\ SchedIdle
    /\ CollIdle
    /\ FilesIdle
    /\ ScrollIdle
    /\ AuthIdle
    /\ InjectIdle
    /\ ExecIdle
    /\ SanitizeIdle
    /\ FreeIdle
    /\ ClickIdle

\* what the steps of each component on its own leave alone
NameFrame == <<mainVars, pauseRun, prog, sched, coll, files, scroll, auth, inj, exec, san, rec, clk>>
PauseFrame == <<mainVars, nameTry, prog, sched, coll, files, scroll, auth, inj, exec, san, rec, clk>>
ProgFrame == <<mainVars, nameTry, pauseRun, sched, coll, files, scroll, auth, inj, exec, san, rec, clk>>
SchedFrame == <<mainVars, nameTry, pauseRun, prog, coll, files, scroll, auth, inj, exec, san, rec, clk>>
CollFrame == <<mainVars, nameTry, pauseRun, prog, sched, files, scroll, auth, inj, exec, san, rec, clk>>
FilesFrame == <<mainVars, nameTry, pauseRun, prog, sched, coll, scroll, auth, inj, exec, san, rec, clk>>
ScrollFrame == <<mainVars, nameTry, pauseRun, prog, sched, coll, files, auth, inj, exec, san, rec, clk>>
AuthFrame == <<mainVars, nameTry, pauseRun, prog, sched, coll, files, scroll, inj, exec, san, rec, clk>>
InjectFrame == <<mainVars, nameTry, pauseRun, prog, sched, coll, files, scroll, auth, exec, san, rec, clk>>
ExecFrame == <<mainVars, nameTry, pauseRun, prog, sched, coll, files, scroll, auth, inj, san, rec, clk>>
SanitizeFrame == <<mainVars, nameTry, pauseRun, prog, sched, coll, files, scroll, auth, inj, exec, rec, clk>>
FreeFrame == <<mainVars, nameTry, pauseRun, prog, sched, coll, files, scroll, auth, inj, exec, san, clk>>
ClickFrame == <<mainVars, nameTry, pauseRun, prog, sched, coll, files, scroll, auth, inj, exec, san, rec>>

Init == MainInit /\ SideIdle

\* the crawl at rest while a component is modelled on its own: a test run
\* over one link with empty records that has not started
MainIdle ==
    /\ MainInit
    /\ cfg.entry = "test"
    /\ cfg.mode = "page"
    /\ cfg.collections = <<LinkA>>
    /\ mem.completedPages = {}
    /\ mem.completedBlocks = {}

\* ------------------------------------------------------- state recorders
\* TaskProgress.markPageComplete
markPageComplete(m, normalizedPath) ==
    [m EXCEPT !.completedPages = @ \cup {normalizedPath}]

\* TaskProgress.markBlockComplete
markBlockComplete(m, blockPath) ==
    [m EXCEPT !.completedBlocks = @ \cup {blockPath}]

\* an addFreePage that replaces the set instead of adding to it
addFreePageOverwriting(m, pagePath) ==
    [m EXCEPT !.freePages = {pagePath}]

\* FreeRecorder.addFreePage
addFreePage(m, pagePath) ==
    [m EXCEPT !.freePages = @ \cup {pagePath}]

\* an addFreeBlock that leaves the grouping by page alone
addFreeBlockUngrouped(m, blockPath, pagePath) ==
    [m EXCEPT !.freeBlocks = @ \cup {blockPath}]

\* FreeRecorder.addFreeBlock: the block path joins blocks and the group of
\* its page in blocksByPage
addFreeBlock(m, blockPath, pagePath) ==
    [m EXCEPT !.freeBlocks = @ \cup {blockPath},
              !.blocksByPage = @ \cup {<<pagePath, blockPath>>}]

\* MismatchRecorder.addMismatch: { pagePath, expected, actual }
addMismatch(m, pagePath, expected, actual) ==
    [m EXCEPT !.mismatches = @ \cup {<<pagePath, expected, actual>>}]

\* createSafeOutput: a file name that had to be sanitised is remembered in
\* the filename mapping under the key of the block (or page) that wrote it
addMapping(m, key) ==
    [m EXCEPT !.mapping = @ \cup {key}]

\* TaskProgress.saveProgress / saveProgressSync
saveProgress(d, m) ==
    [d EXCEPT !.completedPages = m.completedPages,
              !.completedBlocks = m.completedBlocks]

\* FreeRecorder.save / MetaCollector.save
saveFree(d, m) ==
    [d EXCEPT !.freePages = m.freePages,
              !.freeBlocks = m.freeBlocks,
              !.blocksByPage = m.blocksByPage]

\* the block paths of the blocks whose free check counted one match
detectedFreeBlocks ==
    UNION {{BlockPath(PagePath(i), BlockName(k)) :
               k \in {n \in 1..MaxBlocks : blockMatches[i][n] = 1}} :
           i \in DOMAIN pc}

\* FreeRecorder.save: totalBlocks: this.blocks.size
totalBlocks(record) == Cardinality(record.freeBlocks)

\* FilenameMappingManager.save / saveSync
saveMapping(d, m) == [d EXCEPT !.mapping = m.mapping]

\* the first block of a page carries a file name that needs sanitising
NeedsMapping(k) == k = 1

\* a limiter that gives a slot back at the callback's first await: only the
\* tasks that have not navigated yet are counted
ActiveCountReleasedAtAwait == Cardinality({i \in Tasks : pc[i] = "goto"})

\* --------------------------------------------------------------- limiter
\* p-limit: activeCount, the callbacks entered and not yet returned
ActiveCount ==
    Cardinality({i \in Tasks : pc[i] \notin {"queued", "done", "killed"}})

\* ----------------------------------------------------------------- run()
\* CrawlerOrchestrator.run up to the call of processAllLinks, and the head of
\* executeAll: counters reset, known free pages loaded
RunStart ==
    /\ cfg.entry = "crawl"
    /\ runPc = "start"
    /\ \/ /\ runPc' = "links"
          /\ previousCompletedPages' = Cardinality(mem.completedPages)
          /\ knownFreePages' = mem.freePages
          /\ completed' = 0
          /\ failed' = 0
       \/ \* a statement of the try block throws before the links are handled
          /\ runPc' = "cleanupThrow"
          /\ UNCHANGED <<knownFreePages, completed, failed,
                         previousCompletedPages>>
    /\ isComplete' = FALSE
    /\ UNCHANGED <<cfg, sideVars, meta, pageThrew, run, firstRun, loaded, freeVars, taskVars, outcome,
                   mem, disk, openTabs, openCtx,
                   primaryOpen>>

\* TestMode.execute up to the navigation: recorders initialised, signal
\* handler installed
TestStart ==
    /\ cfg.entry = "test"
    /\ runPc = "start"
    /\ runPc' = "links"
    /\ pc' = [pc EXCEPT ![1] = "goto"]
    /\ UNCHANGED <<cfg, sideVars, meta, pageThrew, runVars, freeVars, err, nblocks, batch, queries, cnt,
                   res,
                   processedNames, pageMarked, threw, outcome, completed, failed,
                   knownFreePages, mem, disk, openTabs, openCtx, primaryOpen,
                   isComplete>>

\* ------------------------------------------------------------- scheduler
\* the gates with the known-free test placed before the completed test
GateFreeFirst(i) ==
    IF Link(i) \in knownFreePages THEN "skipKnownFree"
    ELSE IF PagePath(i) \in mem.completedPages THEN "skipCompleted"
    ELSE "dispatch"

\* the pre-dispatch gates of executeAll, in the order the code applies them
Gate(i) ==
    IF PagePath(i) \in mem.completedPages THEN "skipCompleted"
    ELSE IF Link(i) \in knownFreePages THEN "skipKnownFree"
    ELSE "dispatch"

\* a createPage that hands the primary page to every task
createPageOnPrimary(isFirst, tabs, i) == tabs

\* LinkExecutor.createPage: the first task gets the primary page, every
\* other task a new tab (in a new context when storageState is set)
createPage(isFirst, tabs, i) == IF isFirst THEN tabs ELSE tabs \cup {i}

\* the limiter callback of executeAll from its entry to the first await:
\* the two skip gates, then LinkExecutor.execute up to createPage
StartTask(i) ==
    /\ cfg.entry = "crawl"
    /\ runPc = "links"
    /\ pc[i] = "queued"
    /\ \A j \in Tasks : j < i => pc[j] # "queued"
    /\ ActiveCount < cfg.maxConcurrency
    /\ IF Gate(i) = "skipCompleted"
       THEN /\ completed' = completed + 1
            /\ outcome' = [outcome EXCEPT ![i] = "skipCompleted"]
            /\ pc' = [pc EXCEPT ![i] = "done"]
            /\ UNCHANGED <<mem, openTabs, openCtx>>
       ELSE IF Gate(i) = "skipKnownFree"
       THEN /\ mem' = addFreePage(mem, Link(i))
            /\ completed' = completed + 1
            /\ outcome' = [outcome EXCEPT ![i] = "skipKnownFree"]
            /\ pc' = [pc EXCEPT ![i] = "done"]
            /\ UNCHANGED <<openTabs, openCtx>>
       ELSE /\ pc' = [pc EXCEPT ![i] = "goto"]
            /\ openTabs' = createPage(i = 1, openTabs, i)
            /\ openCtx' = IF i # 1 /\ cfg.storageState
                          THEN openCtx \cup {i} ELSE openCtx
            /\ UNCHANGED <<mem, completed, outcome>>
    /\ UNCHANGED <<cfg, sideVars, meta, pageThrew, runVars, freeVars, runPc, err, procVars, threw,
                   failed, knownFreePages,
                   disk, primaryOpen,
                   isComplete>>

\* page.goto (with the script injections around it)
Goto(i) ==
    /\ runPc = "links"
    /\ pc[i] = "goto"
    /\ \/ /\ pc' = [pc EXCEPT ![i] = "check"]
          /\ err' = err
       \/ \E e \in {"error", "abort"} :
             /\ err' = [err EXCEPT ![i] = e]
             /\ pc' = [pc EXCEPT ![i] = "finally"]
    /\ UNCHANGED <<cfg, sideVars, meta, pageThrew, runVars, freeVars, runPc, nblocks, batch, queries,
                   cnt, res,
                   processedNames, pageMarked, threw, outcome, completed, failed,
                   knownFreePages, mem, disk, openTabs, openCtx, primaryOpen,
                   isComplete>>

\* a free check that takes any match for "free"
checkFreeOnAnyMatch(count) ==
    IF count = 0 THEN "notFree" ELSE "free"

\* checkPageFree / checkBlockFree with a text to look for: what the count of
\* matches leads to
checkFree(count) ==
    IF count = 0 THEN "notFree"
    ELSE IF count # 1 THEN "throw"
    ELSE "free"

\* a free page that is recorded without being marked complete
recordFreePageOnly(m, link) == addFreePage(m, link)

\* LinkExecutor.execute, the branch taken for a free page
recordFreePage(m, link) ==
    markPageComplete(addFreePage(m, link), NormalizePagePath(link))

\* PageProcessor.checkPageFree and the branch of execute after it
CheckPageFree(i) ==
    /\ runPc = "links"
    /\ pc[i] = "check"
    /\ \E count \in 0..MaxMatches :
          /\ pageMatches' = [pageMatches EXCEPT ![i] = count]
          /\ IF checkFree(count) = "free"
             THEN /\ IF cfg.entry = "crawl"
                     THEN /\ mem' = recordFreePage(mem, Link(i))
                          /\ pc' = [pc EXCEPT ![i] = "finally"]
                          /\ UNCHANGED <<disk, runPc>>
                     ELSE /\ disk' = saveMapping(disk, mem)
                          /\ pc' = [pc EXCEPT ![i] = "done"]
                          /\ runPc' = "returned"
                          /\ mem' = mem
                  /\ err' = err
             ELSE IF checkFree(count) = "notFree"
             THEN /\ pc' = [pc EXCEPT ![i] =
                               IF cfg.mode = "page" THEN "page" ELSE "locate"]
                  /\ UNCHANGED <<mem, disk, runPc, err>>
             ELSE \* the check throws
                  /\ err' = [err EXCEPT ![i] = "ambiguous"]
                  /\ pc' = [pc EXCEPT ![i] = "finally"]
                  /\ UNCHANGED <<mem, disk, runPc>>
    /\ UNCHANGED <<cfg, sideVars, meta, pageThrew, runVars, blockMatches, procVars, threw, outcome,
                   completed, failed,
                   knownFreePages, openTabs, openCtx, primaryOpen,
                   isComplete>>

\* ------------------------------------------------------- block processor
Ascending(S) ==
    LET RECURSIVE Asc(_)
        Asc(T) == IF T = {} THEN <<>>
                  ELSE LET m == CHOOSE x \in T : \A y \in T : x <= y
                       IN <<m>> \o Asc(T \ {m})
    IN Asc(S)

\* a page counts as complete as soon as no located block is left over
PageIsCompleteWhenNothingLeft(mode, completedCount, located) ==
    completedCount = located

\* the end of processBlocksTraditional / processBlocksProgressively /
\* processMultipleBlockSections: decide whether the page is complete
PageIsComplete(mode, completedCount, located) ==
    IF mode = "traditional"
    THEN completedCount = located /\ located > 0
    ELSE completedCount > 0

FinishPage(i) ==
    /\ IF PageIsComplete(cfg.mode, cnt[i], nblocks[i])
       THEN /\ mem' = markPageComplete(mem, PagePath(i))
            /\ pageMarked' = [pageMarked EXCEPT ![i] = TRUE]
       ELSE UNCHANGED <<mem, pageMarked>>
    /\ pc' = [pc EXCEPT ![i] = "finally"]

\* processBlocksTraditional: an expected count was handed in and the
\* located count differs from it
IsMismatch(policy, actualCount) ==
    policy # "noExpected" /\ actualCount # ExpectedBlockCount

\* a mismatch that skips the page whatever ignoreMismatch says
SkipsPageAlways(policy) == TRUE

\* processBlocksTraditional: !this.config.ignoreMismatch
SkipsPage(policy) == policy = "skipOnMismatch"

\* getAllBlocks / page.locator(...).all() and what each mode does with the
\* answer before it processes the first block of the batch
LocateBlocks(i) ==
    /\ runPc = "links"
    /\ pc[i] = "locate"
    /\ queries[i] <= MaxBatches
    /\ queries' = [queries EXCEPT ![i] = @ + 1]
    /\ \/ /\ cfg.mode = "traditional"
          /\ \E n \in 0..SiteBlocks :
                /\ nblocks' = [nblocks EXCEPT ![i] = n]
                /\ mem' = IF IsMismatch(cfg.mismatch, n)
                          THEN addMismatch(mem, Link(i), ExpectedBlockCount, n)
                          ELSE mem
                /\ IF IsMismatch(cfg.mismatch, n) /\ SkipsPage(cfg.mismatch)
                   THEN /\ pc' = [pc EXCEPT ![i] = "finally"]
                        /\ batch' = batch
                   ELSE /\ pc' = [pc EXCEPT ![i] = "blocks"]
                        /\ batch' = [batch EXCEPT ![i] = Ascending(1..n)]
          /\ pageMarked' = pageMarked
       \/ /\ cfg.mode = "progressive"
          /\ \E n \in nblocks[i]..SiteBlocks :
                LET unprocessed == (1..n) \ processedNames[i] IN
                /\ nblocks' = [nblocks EXCEPT ![i] = n]
                /\ IF unprocessed = {}
                   THEN /\ FinishPage(i)
                        /\ batch' = batch
                   ELSE /\ pc' = [pc EXCEPT ![i] = "blocks"]
                        /\ batch' = [batch EXCEPT ![i] = Ascending(unprocessed)]
                        /\ UNCHANGED <<mem, pageMarked>>
       \/ /\ cfg.mode = "multi"
          /\ IF queries[i] >= NumSections
             THEN /\ FinishPage(i)
                  /\ UNCHANGED <<nblocks, batch>>
             ELSE \E n \in nblocks[i]..SiteBlocks :
                     /\ nblocks' = [nblocks EXCEPT ![i] = n]
                     /\ batch' = [batch EXCEPT ![i] =
                                     Ascending((nblocks[i] + 1)..n)]
                     /\ pc' = [pc EXCEPT ![i] = "blocks"]
                     /\ UNCHANGED <<mem, pageMarked>>
    /\ UNCHANGED <<cfg, sideVars, meta, pageThrew, runVars, freeVars, runPc, err, cnt, res,
                   processedNames, threw, outcome,
                   completed, failed, knownFreePages, disk, openTabs, openCtx,
                   primaryOpen,
                   isComplete>>

\* a handleProcessingError that re-raises what is not a user abort
handleProcessingErrorRethrow(kind) ==
    IF kind = "abort" THEN "aborted" ELSE "rethrow"

\* handleProcessingError: what the catch block of a block task hands back
\* ("rethrow" when the error leaves the block task, else the block result)
handleProcessingError(kind) ==
    IF kind = "abort" THEN "aborted" ELSE "throw"

\* the block results that count as success in the caller's loop
Success == {"ok", "skipDone", "free", "okNoPath"}
\* the block results that carry a blockName
Named == {"ok", "skipDone", "free", "throw", "aborted"}

\* the bookkeeping of the caller's loop for one block result r of block k
BlockDone(i, k, r) ==
    /\ res' = [res EXCEPT ![i][k] = r]
    /\ cnt' = [cnt EXCEPT ![i] = IF r \in Success THEN @ + 1 ELSE @]
    /\ processedNames' = [processedNames EXCEPT ![i] =
                             IF r \in Named THEN @ \cup {k} ELSE @]
    /\ batch' = [batch EXCEPT ![i] = Tail(@)]
    /\ UNCHANGED <<pc, err>>

\* markBlockComplete moved into a finally block: it runs whatever the
\* handler did
MarkInFinally(m, h, blockPath) ==
    IF blockPath # <<>> THEN markBlockComplete(m, blockPath) ELSE m

\* markBlockComplete follows the handler inside the try block, so it is
\* reached only when the handler returned; processBlockWithConfig also skips
\* it when the block path is empty
MarkAfterHandler(m, h, blockPath) ==
    IF h = "ok" /\ blockPath # <<>> THEN markBlockComplete(m, blockPath) ELSE m

\* the handler of block k (blockHandler or AutoFileProcessor.process) ran and
\* ended with h; the try/catch around it in processSingleBlock,
\* processBlockWithSectionConfig and processBlockWithConfig
RunHandler(i, k, h, blockPath) ==
    LET written == IF h = "ok" /\ NeedsMapping(k) /\ blockPath # <<>>
                   THEN addMapping(mem, blockPath) ELSE mem
        r == IF h = "ok"
             THEN (IF blockPath = <<>> THEN "okNoPath" ELSE "ok")
             ELSE handleProcessingError(h)
    IN /\ threw' = [threw EXCEPT ![i] = @ \/ h = "error"]
       /\ IF r = "rethrow"
          THEN /\ mem' = written
               /\ err' = [err EXCEPT ![i] = "error"]
               /\ pc' = [pc EXCEPT ![i] = "finally"]
               /\ res' = [res EXCEPT ![i][k] = "throw"]
               /\ UNCHANGED <<cnt, processedNames, batch>>
          ELSE /\ mem' = MarkAfterHandler(written, h, blockPath)
               /\ BlockDone(i, k, r)

\* pre-checks that ask the free check before the progress record
performPreChecksFreeFirst(complete, count) ==
    IF checkFree(count) = "free" THEN "free"
    ELSE IF checkFree(count) = "throw" THEN "throw"
    ELSE IF complete THEN "skipDone"
    ELSE "process"

\* performPreChecks once the block has a name: the completion check, then
\* the free check, then the go-ahead for the handler
performPreChecks(complete, count) ==
    IF complete THEN "skipDone"
    ELSE IF checkFree(count) = "free" THEN "free"
    ELSE IF checkFree(count) = "throw" THEN "throw"
    ELSE "process"

\* processSingleBlock / processBlockWithSectionConfig for the next block of
\* the batch, with the caller's bookkeeping of its result
ProcessSingleBlock(i) ==
    /\ runPc = "links"
    /\ pc[i] = "blocks"
    /\ batch[i] # <<>>
    /\ LET k == Head(batch[i])
           blockPath == BlockPath(PagePath(i), BlockName(k))
       IN \/ \* scrollToTop, prepare, clickCode or the name extraction throws
             \E e \in {"error", "abort"} :
                /\ err' = [err EXCEPT ![i] = e]
                /\ pc' = [pc EXCEPT ![i] = "finally"]
                /\ UNCHANGED <<mem, res, cnt, processedNames, batch, threw,
                               blockMatches>>
          \/ \* multi mode: clickLocator is not visible within 100 ms
             /\ cfg.mode = "multi"
             /\ UNCHANGED <<mem, threw, blockMatches>>
             /\ BlockDone(i, k, "clickMissing")
          \/ \* multi mode: the section is configured with skipPreChecks
             /\ cfg.mode = "multi"
             /\ blockMatches' = blockMatches
             /\ \E h \in {"ok", "error", "abort"} : RunHandler(i, k, h, <<>>)
          \/ \* performPreChecks: no block name after the retries
             /\ UNCHANGED <<mem, threw, blockMatches>>
             /\ BlockDone(i, k, "noName")
          \/ \* performPreChecks with a block name, on a block that shows
             \* count matches of the free text
             \E count \in 0..MaxMatches :
                LET pre == performPreChecks(blockPath \in mem.completedBlocks,
                                            count)
                IN /\ blockMatches' =
                         [blockMatches EXCEPT ![i][k] =
                             IF pre = "skipDone" THEN -1 ELSE count]
                   /\ IF pre = "skipDone"
                      THEN /\ UNCHANGED <<mem, threw>>
                           /\ BlockDone(i, k, "skipDone")
                      ELSE IF pre = "free"
                      THEN \* TestMode builds its processor without a free
                           \* recorder
                           /\ mem' = IF cfg.entry = "crawl"
                                     THEN addFreeBlock(mem, blockPath,
                                                       PagePath(i))
                                     ELSE mem
                           /\ threw' = threw
                           /\ BlockDone(i, k, "free")
                      ELSE IF pre = "throw"
                      THEN /\ err' = [err EXCEPT ![i] = "ambiguous"]
                           /\ pc' = [pc EXCEPT ![i] = "finally"]
                           /\ UNCHANGED <<mem, res, cnt, processedNames,
                                          batch, threw>>
                      ELSE \E h \in {"ok", "error", "abort"} :
                              RunHandler(i, k, h, blockPath)
    /\ UNCHANGED <<cfg, sideVars, meta, pageThrew, runVars, pageMatches, runPc, nblocks, queries,
                   pageMarked, outcome,
                   completed, failed, knownFreePages, disk, openTabs, openCtx,
                   primaryOpen,
                   isComplete>>

\* the loop over the batch has ended
FinishBlocks(i) ==
    /\ runPc = "links"
    /\ pc[i] = "blocks"
    /\ batch[i] = <<>>
    /\ IF cfg.mode = "traditional"
       THEN FinishPage(i)
       ELSE /\ pc' = [pc EXCEPT ![i] = "locate"]
            /\ UNCHANGED <<mem, pageMarked>>
    /\ UNCHANGED <<cfg, sideVars, meta, pageThrew, runVars, freeVars, runPc, err, nblocks, batch,
                   queries, cnt, res,
                   processedNames, threw, outcome, completed, failed,
                   knownFreePages, disk, openTabs, openCtx, primaryOpen,
                   isComplete>>

\* -------------------------------------------------------- page processor
\* a catch block that swallows the error of the page handler
processPageCatchSwallows(e) == "none"

\* the catch block of PageProcessor.processPage: it may pause, and it
\* always ends with `throw error`
processPageCatch(e) == e

\* PageProcessor.processPage and, in a crawl, LinkExecutor.processPage
PageHandler(i) ==
    /\ runPc = "links"
    /\ pc[i] = "page"
    /\ \/ /\ mem' = LET written == addMapping(mem, PagePath(i))
                    IN IF cfg.entry = "crawl"
                       THEN markPageComplete(written, PagePath(i))
                       ELSE written
          /\ UNCHANGED <<err, pageThrew>>
       \/ \E e \in {"error", "abort"} :
             LET raised == processPageCatch(e)
             IN /\ err' = [err EXCEPT ![i] = raised]
                /\ pageThrew' = [pageThrew EXCEPT ![i] = TRUE]
                \* LinkExecutor.processPage goes on to markPageComplete
                \* only when processPage returned
                /\ mem' = IF raised = "none" /\ cfg.entry = "crawl"
                          THEN markPageComplete(mem, PagePath(i))
                          ELSE mem
    /\ pc' = [pc EXCEPT ![i] = "finally"]
    /\ UNCHANGED <<cfg, sideVars, meta, runVars, freeVars, runPc, nblocks, batch, queries,
                   cnt, res,
                   processedNames, pageMarked, threw, outcome, completed, failed,
                   knownFreePages, disk, openTabs, openCtx, primaryOpen,
                   isComplete>>

\* ------------------------------------------------------- end of the task
\* the BlockProcessor created by LinkExecutor.processBlocks is unreachable
\* once execute has left its try block
DropProcessor(i) ==
    /\ nblocks' = [nblocks EXCEPT ![i] = 0]
    /\ batch' = [batch EXCEPT ![i] = <<>>]
    /\ queries' = [queries EXCEPT ![i] = 0]
    /\ cnt' = [cnt EXCEPT ![i] = 0]
    /\ res' = [res EXCEPT ![i] = [k \in 1..MaxBlocks |-> "none"]]
    /\ processedNames' = [processedNames EXCEPT ![i] = {}]
    /\ pageMarked' = [pageMarked EXCEPT ![i] = FALSE]
    /\ blockMatches' = [blockMatches EXCEPT ![i] = [k \in 1..MaxBlocks |-> -1]]

\* the close calls moved to the end of the try block: skipped on an error
PageClosedOnSuccess(open, i, e) == IF e = "none" THEN open \ {i} ELSE open

\* newPage.close() / newPage.context().close() sit in the finally block:
\* they run whatever error e the try block ended with
PageClosed(open, i, e) == open \ {i}

\* the finally block of LinkExecutor.execute
ClosePage(i) ==
    /\ cfg.entry = "crawl"
    /\ runPc = "links"
    /\ pc[i] = "finally"
    /\ openTabs' = PageClosed(openTabs, i, err[i])
    /\ primaryOpen' = IF i = 1 THEN FALSE ELSE primaryOpen
    /\ openCtx' = PageClosed(openCtx, i, err[i])
    /\ pc' = [pc EXCEPT ![i] = "settle"]
    /\ DropProcessor(i)
    /\ UNCHANGED <<cfg, sideVars, meta, pageThrew, runVars, pageMatches, runPc, err, threw, outcome,
                   completed, failed,
                   knownFreePages, mem, disk,
                   isComplete>>

\* a classification that recognises no error as a user abort
isUserAbortNever(e) == FALSE

\* the catch block of executeAll: errorMessage.includes("Target page,
\* context or browser has been closed")
isUserAbort(e) == e = "abort"

\* executeAll after LinkExecutor.execute has returned or thrown: the
\* counters, then the limiter callback returns
Settle(i) ==
    /\ cfg.entry = "crawl"
    /\ runPc = "links"
    /\ pc[i] = "settle"
    /\ IF err[i] = "none"
       THEN /\ completed' = completed + 1
            /\ failed' = failed
            /\ outcome' = [outcome EXCEPT ![i] = "completed"]
       ELSE IF isUserAbort(err[i])
       THEN /\ UNCHANGED <<completed, failed>>
            /\ outcome' = [outcome EXCEPT ![i] = "aborted"]
       ELSE /\ failed' = failed + 1
            /\ completed' = completed
            /\ outcome' = [outcome EXCEPT ![i] = "failed"]
    /\ pc' = [pc EXCEPT ![i] = "done"]
    /\ UNCHANGED <<cfg, sideVars, meta, pageThrew, runVars, freeVars, runPc, err, procVars, threw,
                   knownFreePages, mem,
                   disk, openTabs, openCtx, primaryOpen, isComplete>>

\* the success count executeAll hands to printStatistics
totalCompleted == completed + previousCompletedPages

\* Promise.allSettled resolves, executeAll returns, run() reaches finally
AllSettled ==
    /\ cfg.entry = "crawl"
    /\ runPc = "links"
    /\ \A i \in Tasks : pc[i] = "done"
    /\ isComplete' = TRUE
    /\ runPc' = "cleanup"
    /\ UNCHANGED <<cfg, sideVars, meta, pageThrew, runVars, freeVars, taskVars, outcome, completed,
                   failed, knownFreePages,
                   mem, disk, openTabs, openCtx, primaryOpen>>

\* cleanup() with the progress save left out
cleanupWithoutProgress(d, m) == saveMapping(saveFree(d, m), m)

\* MetaCollector.save(isComplete): the isComplete flag meta.json is written
\* with
saveMeta(flag) == IF flag THEN "complete" ELSE "incomplete"

\* CrawlerOrchestrator.cleanup, called from the finally block of run()
cleanup(d, m) == saveMapping(saveFree(saveProgress(d, m), m), m)

Cleanup ==
    /\ cfg.entry = "crawl"
    /\ runPc \in {"cleanup", "cleanupThrow"}
    /\ disk' = cleanup(disk, mem)
    /\ meta' = saveMeta(isComplete)
    /\ runPc' = IF runPc = "cleanup" THEN "returned" ELSE "thrown"
    /\ UNCHANGED <<cfg, sideVars, pageThrew, runVars, freeVars, taskVars, outcome, completed,
                   failed, knownFreePages,
                   mem, openTabs, openCtx, primaryOpen,
                   isComplete>>

\* the end of TestMode.execute: the saves at the end of the try block are
\* reached only when nothing threw
TestFinish ==
    /\ cfg.entry = "test"
    /\ runPc = "links"
    /\ pc[1] = "finally"
    /\ pc' = [pc EXCEPT ![1] = "done"]
    /\ IF err[1] = "none"
       THEN /\ disk' = saveProgress(saveMapping(disk, mem), mem)
            /\ runPc' = "returned"
       ELSE /\ disk' = disk
            /\ runPc' = "thrown"
    /\ UNCHANGED <<cfg, sideVars, meta, pageThrew, runVars, freeVars, err, nblocks, batch, queries, cnt,
                   res,
                   processedNames, pageMarked, threw, outcome, completed, failed,
                   knownFreePages, mem, openTabs, openCtx, primaryOpen,
                   isComplete>>

\* ---------------------------------------------------------------- re-run
\* the crawl is started again over the same collect.json after a run that
\* returned: every recorder is initialised from its file
Restart ==
    /\ cfg.entry = "crawl"
    /\ runPc = "returned"
    /\ run = 1
    /\ run' = 2
    /\ firstRun' =
          [success |-> \A i \in Tasks :
                          outcome[i] \in {"skipCompleted", "skipKnownFree",
                                          "completed"},
           recorded |-> \A i \in Tasks :
                           \/ PagePath(i) \in mem.completedPages
                           \/ Link(i) \in mem.freePages,
           dispatched |-> \E i \in Tasks : outcome[i] = "completed"]
    /\ runPc' = "start"
    /\ mem' = disk
    /\ loaded' = disk
    /\ previousCompletedPages' = 0
    /\ pageMatches' = [i \in Tasks |-> -1]
    /\ blockMatches' = blockMatches
    /\ pc' = [i \in Tasks |-> "queued"]
    /\ err' = [i \in Tasks |-> "none"]
    /\ threw' = [i \in Tasks |-> FALSE]
    /\ pageThrew' = [i \in Tasks |-> FALSE]
    /\ outcome' = [i \in Tasks |-> "none"]
    /\ completed' = 0
    /\ failed' = 0
    /\ knownFreePages' = {}
    /\ primaryOpen' = TRUE
    /\ isComplete' = FALSE
    /\ UNCHANGED <<cfg, sideVars, meta, disk, procVars, openTabs, openCtx>>

\* ---------------------------------------------------------------- signals
\* what the installed SIGINT/SIGTERM handler saves before process.exit
signalFlush(entry, d, m) ==
    IF entry = "crawl"
    THEN saveProgress(d, m)
    ELSE saveProgress(saveMapping(d, m), m)

Signal ==
    /\ runPc \in {"links", "cleanup", "cleanupThrow"}
    /\ disk' = signalFlush(cfg.entry, disk, mem)
    /\ runPc' = "exited"
    \* process.exit(0): no task, tab or counter outlives the process; mem
    \* keeps what the recorders held at the exit
    /\ pc' = [i \in Tasks |-> "killed"]
    /\ err' = [i \in Tasks |-> "none"]
    /\ nblocks' = [i \in Tasks |-> 0]
    /\ batch' = [i \in Tasks |-> <<>>]
    /\ queries' = [i \in Tasks |-> 0]
    /\ cnt' = [i \in Tasks |-> 0]
    /\ res' = [i \in Tasks |-> [k \in 1..MaxBlocks |-> "none"]]
    /\ processedNames' = [i \in Tasks |-> {}]
    /\ pageMarked' = [i \in Tasks |-> FALSE]
    /\ threw' = [i \in Tasks |-> FALSE]
    /\ pageThrew' = [i \in Tasks |-> FALSE]
    /\ outcome' = [i \in Tasks |-> "none"]
    /\ completed' = 0
    /\ failed' = 0
    /\ knownFreePages' = {}
    /\ openTabs' = {}
    /\ openCtx' = {}
    /\ primaryOpen' = FALSE
    /\ isComplete' = FALSE
    /\ pageMatches' = [i \in Tasks |-> -1]
    /\ blockMatches' = [i \in Tasks |-> [k \in 1..MaxBlocks |-> -1]]
    /\ UNCHANGED <<cfg, sideVars, meta, runVars, mem>>

\* ------------------------------------------------------------------ spec
Next ==
    \/ RunStart
    \/ TestStart
    \/ \E i \in Tasks : StartTask(i)
    \/ \E i \in Tasks : Goto(i)
    \/ \E i \in Tasks : CheckPageFree(i)
    \/ \E i \in Tasks : LocateBlocks(i)
    \/ \E i \in Tasks : ProcessSingleBlock(i)
    \/ \E i \in Tasks : FinishBlocks(i)
    \/ \E i \in Tasks : PageHandler(i)
    \/ \E i \in Tasks : ClosePage(i)
    \/ \E i \in Tasks : Settle(i)
    \/ AllSettled
    \/ Cleanup
    \/ TestFinish
    \/ Restart
    \/ Signal

Spec == Init /\ [][Next]_vars

\* ------------------------------------------- block name with retries
\* default parameters of getBlockNameWithRetry
maxRetries == 3
retryDelay == 200

\* values BlockNameExtractor.extract can hand back
NameResults == {"null", "", "Hero 1"}

\* extract calls a block can answer, one more than the code should make
MaxExtracts == maxRetries + 1

\* if (name)
Truthy(name) == name \notin {"null", ""}

\* a retry loop without an upper bound on the attempts
afterExtractUnbounded(attempt, name) ==
    IF Truthy(name) THEN "return" ELSE "wait"

\* the body of the loop of getBlockNameWithRetry after the extract call
afterExtract(attempt, name) ==
    IF Truthy(name) THEN "return"
    ELSE IF attempt < maxRetries THEN "wait"
    ELSE "giveUp"

NameInit ==
    /\ MainIdle
    /\ PauseIdle
    /\ ProgIdle
    /\ SchedIdle
    /\ CollIdle
    /\ FilesIdle
    /\ ScrollIdle
    /\ AuthIdle
    /\ InjectIdle
    /\ ExecIdle
    /\ SanitizeIdle
    /\ FreeIdle
    /\ ClickIdle
    /\ \E r \in [1..MaxExtracts -> NameResults] :
          nameTry = [results |-> r, stage |-> "extract", attempt |-> 0,
                     waits |-> 0, name |-> "", handler |-> FALSE,
                     marked |-> FALSE, counted |-> "none"]

\* one pass of the loop up to the wait: this.getBlockName(block)
NameExtract ==
    /\ nameTry.stage = "extract"
    /\ nameTry.attempt < Len(nameTry.results)
    /\ LET attempt == nameTry.attempt + 1
           name == nameTry.results[attempt]
           next == afterExtract(attempt, name)
       IN nameTry' = [nameTry EXCEPT
                        !.attempt = attempt,
                        !.name = IF next = "giveUp" THEN "null" ELSE name,
                        !.stage = IF next = "wait" THEN "wait" ELSE "checks"]
    /\ UNCHANGED NameFrame

\* block.page().waitForTimeout(retryDelay)
NameWait ==
    /\ nameTry.stage = "wait"
    /\ nameTry' = [nameTry EXCEPT !.waits = @ + retryDelay,
                                  !.stage = "extract"]
    /\ UNCHANGED NameFrame

\* performPreChecks after getBlockNameWithRetry, and the caller's use of
\* its answer
NamePreChecks ==
    /\ nameTry.stage = "checks"
    /\ IF ~Truthy(nameTry.name)
       THEN nameTry' = [nameTry EXCEPT !.stage = "done",
                                      !.counted = "failure"]
       ELSE \E complete \in BOOLEAN : \E count \in 0..MaxMatches :
               LET pre == performPreChecks(complete, count)
               IN nameTry' =
                     [nameTry EXCEPT
                        !.stage = IF pre = "process" THEN "handler"
                                  ELSE "done",
                        !.counted = IF pre \in {"skipDone", "free"}
                                    THEN "success" ELSE "none"]
    /\ UNCHANGED NameFrame

\* the handler of the block and markBlockComplete after it
NameHandler ==
    /\ nameTry.stage = "handler"
    /\ \E h \in {"ok", "error", "abort"} :
          nameTry' = [nameTry EXCEPT
                        !.stage = "done",
                        !.handler = TRUE,
                        !.marked = (h = "ok"),
                        !.counted = IF h = "ok" THEN "success"
                                    ELSE "failure"]
    /\ UNCHANGED NameFrame

NameNext == NameExtract \/ NameWait \/ NamePreChecks \/ NameHandler

NameSpec == NameInit /\ [][NameNext]_vars

\* ------------------------------------------------- pauses on error paths
\* values an environment variable of the process can have
EnvValues == {"unset", "", "1"}
DebugVars == {"PWDEBUG", "PW_TEST_DEBUG", "PLAYWRIGHT_INSPECTOR"}

\* isDebugMode: Boolean(env.PWDEBUG || env.PW_TEST_DEBUG ||
\* env.PLAYWRIGHT_INSPECTOR); an unset and an empty variable are falsy
isDebugMode(env) == \E v \in DebugVars : env[v] \notin {"unset", ""}

PauseInit ==
    /\ MainIdle
    /\ NameIdle
    /\ ProgIdle
    /\ SchedIdle
    /\ CollIdle
    /\ FilesIdle
    /\ ScrollIdle
    /\ AuthIdle
    /\ InjectIdle
    /\ ExecIdle
    /\ SanitizeIdle
    /\ FreeIdle
    /\ ClickIdle
    /\ \E env \in [DebugVars -> EnvValues] : \E poe \in BOOLEAN :
          pauseRun = [env |-> env, pauseOnError |-> poe, path |-> "none",
                      paused |-> FALSE]

\* an error path has run to its end
PauseEnd(path, paused) ==
    /\ pauseRun.path = "none"
    /\ pauseRun' = [pauseRun EXCEPT !.path = path, !.paused = paused]
    /\ UNCHANGED PauseFrame

\* performPreChecks: the name of a block stayed empty
PauseNameEmpty == PauseEnd("nameEmpty", TRUE)

\* handleProcessingError: the handler of a block threw a non-abort error
PauseHandlerError ==
    PauseEnd("handlerError",
             pauseRun.pauseOnError /\ isDebugMode(pauseRun.env))

\* PageProcessor.processPage: the page handler threw
PausePageError ==
    PauseEnd("pageError", pauseRun.pauseOnError /\ isDebugMode(pauseRun.env))

\* verifyCompletion: the processed count differs from the located count
PauseVerifyFailed == PauseEnd("verifyFailed", isDebugMode(pauseRun.env))

\* clickAndVerify: the last retry failed or was not verified
PauseClickFailed == PauseEnd("clickFailed", isDebugMode(pauseRun.env))

PauseNext ==
    \/ PauseNameEmpty
    \/ PauseHandlerError
    \/ PausePageError
    \/ PauseVerifyFailed
    \/ PauseClickFailed

PauseSpec == PauseInit /\ [][PauseNext]_vars

\* ------------------------------------- the progressive loop on one page
\* what a block of the page does when it is processed: the handler returns,
\* the handler fails, the name is never obtained, a step before the try
\* block throws
BlockKinds == {"ok", "handlerFails", "nameless", "throws"}

ProgInit ==
    /\ MainIdle
    /\ NameIdle
    /\ PauseIdle
    /\ SchedIdle
    /\ CollIdle
    /\ FilesIdle
    /\ ScrollIdle
    /\ AuthIdle
    /\ InjectIdle
    /\ ExecIdle
    /\ SanitizeIdle
    /\ FreeIdle
    /\ ClickIdle
    /\ \E kinds \in [1..MaxBlocks -> BlockKinds] : \E total \in 0..MaxBlocks :
          prog = [kinds |-> kinds, total |-> total, shown |-> 0,
                  pc |-> "query", batch |-> <<>>,
                  processedBlockNamesSet |-> {}, completedCount |-> 0,
                  marked |-> FALSE]

\* the filter of one query: a block stays out only when its name is read
\* and is in the set of processed names
unprocessedBlocks(kinds, n, processed) ==
    {k \in 1..n : kinds[k] = "nameless" \/ k \notin processed}

\* one turn of the while loop up to the batch: getAllBlocks, the filter, and
\* the exit with markPageComplete when nothing is left
ProgQuery ==
    /\ prog.pc = "query"
    /\ \E n \in prog.shown..prog.total :
          LET u == unprocessedBlocks(prog.kinds, n,
                                     prog.processedBlockNamesSet)
          IN prog' = IF u = {}
                     THEN [prog EXCEPT !.shown = n, !.pc = "done",
                                       !.marked = prog.completedCount > 0]
                     ELSE [prog EXCEPT !.shown = n, !.pc = "batch",
                                       !.batch = Ascending(u)]
    /\ UNCHANGED ProgFrame

\* processSingleBlock on the next block of the batch and the bookkeeping of
\* its result
ProgBlock ==
    /\ prog.pc = "batch"
    /\ LET k == Head(prog.batch)
           kind == prog.kinds[k]
           rest == Tail(prog.batch)
       IN prog' =
            IF kind = "throws"
            THEN [prog EXCEPT !.pc = "threw", !.batch = <<>>]
            ELSE [prog EXCEPT
                    !.batch = rest,
                    !.pc = IF rest = <<>> THEN "query" ELSE "batch",
                    !.processedBlockNamesSet =
                        IF kind = "nameless" THEN @ ELSE @ \cup {k},
                    !.completedCount = IF kind = "ok" THEN @ + 1 ELSE @]
    /\ UNCHANGED ProgFrame

ProgNext == ProgQuery \/ ProgBlock

\* the loop is one sequence of awaited calls: it goes on whenever it can
ProgSpec == ProgInit /\ [][ProgNext]_vars /\ WF_vars(ProgNext)

\* ------------------------- executeAll under two values of maxConcurrency
\* the same collections, records and per-link outcomes handed to a run with
\* maxConcurrency 1 and to a run with a larger maxConcurrency
SchedRuns == {"sequential", "concurrent"}

\* how LinkExecutor.execute ends for a link: it returns with the page marked
\* complete, returns with the page left unmarked, finds the page free,
\* throws, or throws because the page was closed by the user
LinkOutcomes == {"marked", "unmarked", "free", "throws", "abort"}

\* an href written without the leading slash: LinkExtractor.extract keeps
\* the attribute as it is
LinkRelA == <<"a">>
SchedLinks == LinkPaths \cup {LinkRelA}
SchedCollections == SeqsUpTo(SchedLinks, MaxLinks)

\* the outcomes per link: execute builds `https://${domain}${relativeLink}`,
\* which for a link without leading slash names another host, so goto fails
Plans == {plan \in [SchedLinks -> LinkOutcomes] : plan[LinkRelA] = "throws"}

SchedInit ==
    /\ MainIdle
    /\ NameIdle
    /\ PauseIdle
    /\ ProgIdle
    /\ CollIdle
    /\ FilesIdle
    /\ ScrollIdle
    /\ AuthIdle
    /\ InjectIdle
    /\ ExecIdle
    /\ SanitizeIdle
    /\ FreeIdle
    /\ ClickIdle
    /\ \E c \in SchedCollections : \E plan \in Plans :
       \E pre \in Preloads : \E n \in 2..MaxConcurrency :
          sched =
            [collections |-> c, plan |-> plan, knownFreePages |-> pre.free,
             run |-> [r \in SchedRuns |->
                [maxConcurrency |-> IF r = "sequential" THEN 1 ELSE n,
                 pc |-> [i \in 1..Len(c) |-> "queued"],
                 started |-> <<>>, peak |-> 0,
                 completedPages |-> pre.pages,
                 completedBlocks |-> pre.blocks,
                 freePages |-> pre.free,
                 completed |-> 0, failed |-> 0]]]

\* p-limit activeCount of one run
SchedActive(c) ==
    Cardinality({i \in DOMAIN c.pc : c.pc[i] \notin {"queued", "done"}})

\* the two skip gates of executeAll over the records of one run
gateOf(link, completedPages, knownFree) ==
    IF NormalizePagePath(link) \in completedPages THEN "skipCompleted"
    ELSE IF link \in knownFree THEN "skipKnownFree"
    ELSE "dispatch"

\* the skip-completed gate: this.completed++ and return
skipCompleted(c, i) == [c EXCEPT !.pc[i] = "done", !.completed = @ + 1]

\* the limiter callback of task i in run r up to LinkExecutor.execute
SchedStart ==
    /\ \E r \in SchedRuns : \E i \in 1..Len(sched.collections) :
          LET c == sched.run[r]
              link == sched.collections[i]
              g == gateOf(link, c.completedPages, sched.knownFreePages)
              entered == [c EXCEPT !.started = Append(@, i)]
          IN /\ c.pc[i] = "queued"
             /\ \A j \in 1..(i - 1) : c.pc[j] # "queued"
             /\ SchedActive(c) < c.maxConcurrency
             /\ sched' = [sched EXCEPT !.run[r] =
                   IF g = "skipCompleted" THEN skipCompleted(entered, i)
                   ELSE IF g = "skipKnownFree"
                   THEN [entered EXCEPT !.pc[i] = "done",
                                        !.freePages = @ \cup {link},
                                        !.completed = @ + 1]
                   ELSE [entered EXCEPT
                           !.pc[i] = "execute",
                           !.peak = IF SchedActive(c) + 1 > @
                                    THEN SchedActive(c) + 1 ELSE @]]
    /\ UNCHANGED SchedFrame

\* LinkExecutor.execute of task i in run r, ending as the plan says
SchedExecute ==
    /\ \E r \in SchedRuns : \E i \in 1..Len(sched.collections) :
          LET c == sched.run[r]
              link == sched.collections[i]
              page == NormalizePagePath(link)
              o == sched.plan[link]
              first == {BlockPath(page, BlockName(1))}
              all == {BlockPath(page, BlockName(k)) : k \in 1..MaxBlocks}
          IN /\ c.pc[i] = "execute"
             /\ sched' = [sched EXCEPT !.run[r] =
                   [c EXCEPT
                      !.pc[i] = IF o = "throws" THEN "threw"
                                ELSE IF o = "abort" THEN "aborted"
                                ELSE "returned",
                      !.completedPages =
                          IF o \in {"marked", "free"} THEN @ \cup {page} ELSE @,
                      !.completedBlocks =
                          IF o = "marked" THEN @ \cup all
                          ELSE IF o = "unmarked" THEN @ \cup first
                          ELSE @,
                      !.freePages = IF o = "free" THEN @ \cup {link} ELSE @]]
    /\ UNCHANGED SchedFrame

\* the rest of the limiter callback: completed++, or the catch block
SchedSettle ==
    /\ \E r \in SchedRuns : \E i \in 1..Len(sched.collections) :
          LET c == sched.run[r]
          IN /\ c.pc[i] \in {"returned", "threw", "aborted"}
             /\ sched' = [sched EXCEPT !.run[r] =
                   [c EXCEPT
                      !.pc[i] = "done",
                      !.completed = IF c.pc[i] = "returned" THEN @ + 1 ELSE @,
                      !.failed = IF c.pc[i] = "threw" THEN @ + 1 ELSE @]]
    /\ UNCHANGED SchedFrame

SchedNext == SchedStart \/ SchedExecute \/ SchedSettle

SchedSpec == SchedInit /\ [][SchedNext]_vars

\* every task of run r has settled
SchedAllSettled(r) ==
    \A i \in DOMAIN sched.run[r].pc : sched.run[r].pc[i] = "done"

\* ------------------------------------------------------ the collect phase
\* the two entry points of the collect phase
CollectEntries == {"executeCollect", "CollectionMode"}

\* collect.json of the start URL's host: absent (the empty set), or the
\* collections it holds
NoFile == {}
CollectFiles == {NoFile} \cup {{c} : c \in Collections}

CollectInit ==
    /\ MainIdle
    /\ NameIdle
    /\ PauseIdle
    /\ ProgIdle
    /\ SchedIdle
    /\ FilesIdle
    /\ ScrollIdle
    /\ AuthIdle
    /\ InjectIdle
    /\ ExecIdle
    /\ SanitizeIdle
    /\ FreeIdle
    /\ ClickIdle
    /\ \E entry \in CollectEntries : \E startUrl \in BOOLEAN :
       \E hasSection \in BOOLEAN : \E file \in CollectFiles :
       \E page \in StartPages :
          coll = [pc |-> "enter", entry |-> entry, startUrl |-> startUrl,
                  hasSection |-> hasSection, page |-> page, file0 |-> file,
                  file |-> file, navigated |-> FALSE, extracted |-> NoFile,
                  result |-> NoFile]

\* BlockCrawler.executeCollect up to chain.run(): no collect phase throws,
\* an existing collect.json is returned as it is
executeCollect ==
    /\ coll.pc = "enter"
    /\ coll.entry = "executeCollect"
    /\ coll' = IF ~coll.startUrl THEN [coll EXCEPT !.pc = "threw"]
               ELSE IF coll.file # NoFile
               THEN [coll EXCEPT !.pc = "returned", !.result = coll.file]
               ELSE [coll EXCEPT !.pc = "goto"]
    /\ UNCHANGED CollFrame

\* CollectionMode.execute up to collector.run(): without startUrl the file
\* is looked up, without section it is loaded, with a section a new
\* collection is performed
CollectionModeExecute ==
    /\ coll.pc = "enter"
    /\ coll.entry = "CollectionMode"
    /\ coll' = IF ~coll.startUrl \/ ~coll.hasSection
               THEN (IF coll.file # NoFile
                     THEN [coll EXCEPT !.pc = "returned", !.result = coll.file]
                     ELSE [coll EXCEPT !.pc = "threw"])
               ELSE [coll EXCEPT !.pc = "goto"]
    /\ UNCHANGED CollFrame

\* LinkCollector.run / LinkCollectorChain.run: page.goto(startUrl)
CollectGoto ==
    /\ coll.pc = "goto"
    /\ coll' = [coll EXCEPT !.pc = "extract", !.navigated = TRUE]
    /\ UNCHANGED CollFrame

\* the sections and their links are extracted
CollectExtract ==
    /\ coll.pc = "extract"
    /\ coll' = [coll EXCEPT !.pc = "save", !.extracted = {collect(coll.page)}]
    /\ UNCHANGED CollFrame

\* store.save(result) / saveResult(result), then the result is returned
CollectSave ==
    /\ coll.pc = "save"
    /\ coll' = [coll EXCEPT !.pc = "returned", !.file = coll.extracted,
                            !.result = coll.extracted]
    /\ UNCHANGED CollFrame

CollectNext ==
    \/ executeCollect
    \/ CollectionModeExecute
    \/ CollectGoto
    \/ CollectExtract
    \/ CollectSave

CollectSpec == CollectInit /\ [][CollectNext]_vars

\* ------------------------------------------ the auto-extractor's files
\* the texts a file tab can show: a language name, a file name, a path
TabNames == {"TypeScript", "button.tsx", "ui/card.tsx"}

\* resolveTabName and the filePath built from it: a file name or path is
\* used as it is, a language name becomes index plus its extension
filePathOf(tabName) ==
    IF tabName = "TypeScript" THEN "index.tsx" ELSE tabName

\* the blocks of a run: each on a page, with a name and one file tab
FileBlocks == [page : {NormalizePagePath(l) : l \in LinkPaths},
               k : 1..MaxBlocks, tab : TabNames]

\* the blockPath argument of new AutoFileProcessor(...): empty under
\* skipPreChecks, else the block path of the pre-checks
blockPathOf(b, skipPreChecks) ==
    IF skipPreChecks THEN <<>> ELSE BlockPath(b.page, BlockName(b.k))

FilesInit ==
    /\ MainIdle
    /\ NameIdle
    /\ PauseIdle
    /\ ProgIdle
    /\ SchedIdle
    /\ CollIdle
    /\ ScrollIdle
    /\ AuthIdle
    /\ InjectIdle
    /\ ExecIdle
    /\ SanitizeIdle
    /\ FreeIdle
    /\ ClickIdle
    /\ \E b1 \in FileBlocks : \E b2 \in FileBlocks :
       \E tabContainer \in BOOLEAN : \E skipPreChecks \in BOOLEAN :
          /\ <<b1.page, b1.k>> # <<b2.page, b2.k>>
          /\ files = [blocks |-> <<b1, b2>>, tabContainer |-> tabContainer,
                      skipPreChecks |-> skipPreChecks,
                      todo |-> {1, 2}, written |-> {}]

\* AutoFileProcessor.processSingleFile of block n:
\* `${effectiveOutputDir}/${blockPath}.tsx`
processSingleFile ==
    /\ files.blocks # <<>>
    /\ ~files.tabContainer
    /\ \E n \in files.todo :
          LET b == files.blocks[n]
              outputPath == blockPathOf(b, files.skipPreChecks) \o <<".tsx">>
          IN files' = [files EXCEPT
                         !.todo = @ \ {n},
                         !.written = @ \cup {[path |-> outputPath,
                                              block |-> n]}]
    /\ UNCHANGED FilesFrame

\* AutoFileProcessor.processFileTabs of block n, without variant:
\* `${effectiveOutputDir}/${filePath}`
processFileTabs ==
    /\ files.blocks # <<>>
    /\ files.tabContainer
    /\ \E n \in files.todo :
          LET b == files.blocks[n]
              outputPath == <<filePathOf(b.tab)>>
          IN files' = [files EXCEPT
                         !.todo = @ \ {n},
                         !.written = @ \cup {[path |-> outputPath,
                                              block |-> n]}]
    /\ UNCHANGED FilesFrame

FilesNext == processSingleFile \/ processFileTabs

FilesSpec == FilesInit /\ [][FilesNext]_vars

\* p is an initial part of q
IsPrefix(p, q) == Len(p) <= Len(q) /\ SubSeq(q, 1, Len(p)) = p

\* ---------------------------------------------------- autoScrollToBottom
\* DEFAULT_CONFIG.step, and the tolerances written in the loop
step == 800
BottomTolerance == 10
StallTolerance == 5
StallTicks == 3

\* window.innerHeight of the pages explored
ClientHeight == 600
\* the longest timeout explored, in units of the scroll interval
MaxTimeoutTicks == 4

\* document.body.scrollHeight: the content fits, nearly fits, or is longer
ScrollHeights == {ClientHeight + d : d \in {0, 5, 11, step, 2 * step}}
\* how far one mouse.wheel(0, step) moves the page
WheelMoves == {0, 3, 6, step}

Abs(x) == IF x < 0 THEN -x ELSE x
MinOf(x, y) == IF x < y THEN x ELSE y

\* scrollTop + clientHeight >= scrollHeight - 10
atBottom(scrollTop, scrollHeight) ==
    scrollTop + ClientHeight >= scrollHeight - BottomTolerance

\* a stall test that gives up one tick early
stalledAfterTwo(unchangedCount) == unchangedCount >= StallTicks - 1

\* unchangedCount >= 3
stalled(unchangedCount) == unchangedCount >= StallTicks

ScrollInit ==
    /\ MainIdle
    /\ NameIdle
    /\ PauseIdle
    /\ ProgIdle
    /\ SchedIdle
    /\ CollIdle
    /\ FilesIdle
    /\ AuthIdle
    /\ InjectIdle
    /\ ExecIdle
    /\ SanitizeIdle
    /\ FreeIdle
    /\ ClickIdle
    /\ \E timeout \in 0..MaxTimeoutTicks : \E height \in ScrollHeights :
       \E top \in {0, step} :
          scroll = [pc |-> "tick", timeout |-> timeout, elapsed |-> 0,
                    top |-> MinOf(top, height - ClientHeight),
                    height |-> height,
                    lastScrollTop |-> -1, unchangedCount |-> 0,
                    reads |-> <<>>, result |-> "none", cause |-> "none"]

\* what the try/catch around the loop makes of a driver error
ScrollCaught ==
    [scroll EXCEPT !.pc = "done", !.result = "failure", !.cause = "error"]

\* one turn of the loop up to mouse.wheel: the timeout test, page.evaluate,
\* the bottom test and the stall test
ScrollTick ==
    /\ scroll.pc = "tick"
    /\ \/ \* Date.now() - startTime > timeout
          /\ scroll.elapsed > scroll.timeout
          /\ scroll' = [scroll EXCEPT !.pc = "done", !.result = "failure",
                                      !.cause = "timeout"]
       \/ \* page.evaluate throws
          /\ scroll.elapsed <= scroll.timeout
          /\ scroll' = ScrollCaught
       \/ /\ scroll.elapsed <= scroll.timeout
          /\ LET read == [scroll EXCEPT !.reads = Append(@, scroll.top)]
                 same == Abs(scroll.top - scroll.lastScrollTop)
                            < StallTolerance
                 count == scroll.unchangedCount + 1
             IN scroll' =
                  IF atBottom(scroll.top, scroll.height)
                  THEN [read EXCEPT !.pc = "done", !.result = "success",
                                    !.cause = "bottom"]
                  ELSE IF same /\ stalled(count)
                  THEN [read EXCEPT !.pc = "done", !.result = "success",
                                    !.cause = "stall",
                                    !.unchangedCount = count]
                  ELSE IF same
                  THEN [read EXCEPT !.pc = "wheel", !.unchangedCount = count]
                  ELSE [read EXCEPT !.pc = "wheel", !.unchangedCount = 0,
                                    !.lastScrollTop = scroll.top]
    /\ UNCHANGED ScrollFrame

\* page.mouse.wheel(0, step) and page.waitForTimeout(interval): the page
\* moves by up to step, its content may grow, and time passes
ScrollWheel ==
    /\ scroll.pc = "wheel"
    /\ \/ scroll' = ScrollCaught
       \/ \E move \in WheelMoves : \E height \in ScrollHeights :
          \E dt \in 1..2 :
             /\ height >= scroll.height
             /\ scroll' = [scroll EXCEPT
                   !.pc = "tick",
                   !.height = height,
                   !.top = MinOf(scroll.top + move, height - ClientHeight),
                   !.elapsed = MinOf(scroll.elapsed + dt,
                                     MaxTimeoutTicks + 1)]
    /\ UNCHANGED ScrollFrame

ScrollNext == ScrollTick \/ ScrollWheel

\* the loop is one sequence of awaited driver calls, each of which returns
\* or throws, so the function keeps taking steps until it returns
ScrollSpec == ScrollInit /\ [][ScrollNext]_vars /\ WF_vars(ScrollNext)

\* ------------------------------------------------ authentication manager
\* AuthManager.ensureAuth over one state directory, run after run

MaxAuthRuns == 3

\* what may lie at stateDir/auth.json: nothing, a storageState object, a
\* cookie array exported by a browser plug-in, other JSON, or no JSON at all
AuthFormats == {"absent", "storageState", "cookieArray", "other", "corrupt"}

AuthFiles ==
    {[format |-> f, cookies |-> n] : f \in {"storageState", "cookieArray"},
                                     n \in 0..1}
    \cup {[format |-> f, cookies |-> 0] : f \in {"absent", "other", "corrupt"}}

AuthAbsent == [format |-> "absent", cookies |-> 0]

\* a check that never finds the file
pathExistsNever(file) == FALSE

\* fse.pathExists(authFile)
pathExists(file) == file.format # "absent"

\* AuthManager.normalizeCookies: the number of cookies handed to addCookies
normalizeCookies(file) ==
    IF file.format \in {"storageState", "cookieArray"} THEN file.cookies
    ELSE 0

AuthInit ==
    /\ MainIdle
    /\ NameIdle
    /\ PauseIdle
    /\ ProgIdle
    /\ SchedIdle
    /\ CollIdle
    /\ FilesIdle
    /\ ScrollIdle
    /\ InjectIdle
    /\ ExecIdle
    /\ SanitizeIdle
    /\ FreeIdle
    /\ ClickIdle
    /\ \E configured \in BOOLEAN : \E file \in AuthFiles :
          auth = [pc |-> "start", configured |-> configured, file |-> file,
                  runs |-> 1, invoked |-> FALSE, applied |-> 0,
                  logins |-> 0, invokedAfterLogin |-> FALSE]

\* ensureAuth up to its first await that can fail: the handler test and
\* pathExists
EnsureAuthEnter ==
    /\ auth.pc = "start"
    /\ auth' =
         IF ~auth.configured THEN [auth EXCEPT !.pc = "returned"]
         ELSE IF pathExists(auth.file) THEN [auth EXCEPT !.pc = "apply"]
         ELSE [auth EXCEPT !.pc = "handler", !.invoked = TRUE,
                           !.invokedAfterLogin = @ \/ auth.logins > 0]
    /\ UNCHANGED AuthFrame

\* applyAuthFromFile: readJSON, normalizeCookies, addCookies
AuthApply ==
    /\ auth.pc = "apply"
    /\ auth' =
         IF auth.file.format = "corrupt" THEN [auth EXCEPT !.pc = "threw"]
         ELSE [auth EXCEPT !.pc = "returned",
                           !.applied = normalizeCookies(auth.file)]
    /\ UNCHANGED AuthFrame

\* await this.authHandler(this.page): the login returns or throws
AuthHandler ==
    /\ auth.pc = "handler"
    /\ \E ok \in BOOLEAN :
          auth' = [auth EXCEPT !.pc = IF ok THEN "persist" ELSE "threw"]
    /\ UNCHANGED AuthFrame

\* ensureDir and context.storageState({ path: authFile }): the file is
\* written, or the call throws and leaves no file
AuthPersist ==
    /\ auth.pc = "persist"
    /\ \/ \E n \in 0..1 :
             auth' = [auth EXCEPT
                        !.pc = "returned",
                        !.file = [format |-> "storageState", cookies |-> n],
                        !.logins = @ + 1]
       \/ auth' = [auth EXCEPT !.pc = "threw"]
    /\ UNCHANGED AuthFrame

\* the next run of the crawler over the same state directory
AuthNextRun ==
    /\ auth.pc \in {"returned", "threw"}
    /\ auth.runs < MaxAuthRuns
    /\ auth' = [auth EXCEPT !.pc = "start", !.runs = @ + 1,
                            !.invoked = FALSE, !.applied = 0]
    /\ UNCHANGED AuthFrame

AuthNext ==
    EnsureAuthEnter \/ AuthApply \/ AuthHandler \/ AuthPersist \/ AuthNextRun

AuthSpec == AuthInit /\ [][AuthNext]_vars

\* ------------------------------------------------------- script injector
\* ScriptInjector.injectScripts(page, scriptNames, timing)

MaxScripts == 2

\* a listed script file: a user script (contains the UserScript header),
\* another script, or a name with no readable file
ScriptKinds == {"user", "plain", "missing"}

ScriptLists == SeqsUpTo(ScriptKinds, MaxScripts)

Timings == {"beforePageLoad", "afterPageLoad"}

\* ScriptInjector.isUserScript on the content read from the file
isUserScript(kind) == kind = "user"

InjectInit ==
    /\ MainIdle
    /\ NameIdle
    /\ PauseIdle
    /\ ProgIdle
    /\ SchedIdle
    /\ CollIdle
    /\ FilesIdle
    /\ ScrollIdle
    /\ AuthIdle
    /\ ExecIdle
    /\ SanitizeIdle
    /\ FreeIdle
    /\ ClickIdle
    /\ \E scriptNames \in ScriptLists : \E timing \in Timings :
          inj = [pc |-> "precheck", scriptNames |-> scriptNames,
                 timing |-> timing, hasUserScript |-> FALSE, next |-> 1,
                 page |-> <<>>]

\* the first loop: readFile of every name until a user script is found; a
\* failed read is skipped
InjectPrecheck ==
    /\ inj.pc = "precheck"
    /\ LET found == \E k \in DOMAIN inj.scriptNames :
                       isUserScript(inj.scriptNames[k])
       IN inj' = [inj EXCEPT !.hasUserScript = found,
                             !.pc = IF found THEN "polyfill" ELSE "scripts"]
    /\ UNCHANGED InjectFrame

\* addInitScript / evaluate of getGMPolyfill() inside try/catch: the page
\* receives the polyfill, or the driver call throws and a warning is logged
InjectPolyfill ==
    /\ inj.pc = "polyfill"
    /\ \/ inj' = [inj EXCEPT !.pc = "scripts", !.page = Append(@, "polyfill")]
       \/ inj' = [inj EXCEPT !.pc = "scripts"]
    /\ UNCHANGED InjectFrame

\* one turn of the second loop: readFile, then addInitScript / evaluate of
\* the content, all inside try/catch
InjectScript ==
    /\ inj.pc = "scripts"
    /\ inj.next <= Len(inj.scriptNames)
    /\ LET kind == inj.scriptNames[inj.next]
       IN \/ /\ kind # "missing"
             /\ inj' = [inj EXCEPT !.next = @ + 1, !.page = Append(@, kind)]
          \/ inj' = [inj EXCEPT !.next = @ + 1]
    /\ UNCHANGED InjectFrame

\* the second loop is over and injectScripts returns
InjectReturn ==
    /\ inj.pc = "scripts"
    /\ inj.next > Len(inj.scriptNames)
    /\ inj' = [inj EXCEPT !.pc = "done"]
    /\ UNCHANGED InjectFrame

InjectNext ==
    InjectPrecheck \/ InjectPolyfill \/ InjectScript \/ InjectReturn

InjectSpec == InjectInit /\ [][InjectNext]_vars

\* --------------------------------------------- the steps of one link task
\* LinkExecutor.execute(page, relativeLink, isFirst, options) as the ordered
\* list of the driver calls it makes

\* options.beforeOpenScripts / afterOpenScripts: undefined, [] or a list
ScriptOptions == {"undefined", "empty", "listed"}

\* options.xScripts?.length
hasLength(scripts) == scripts = "listed"

ExecModes == {"block", "page", "none"}

ExecInit ==
    /\ MainIdle
    /\ NameIdle
    /\ PauseIdle
    /\ ProgIdle
    /\ SchedIdle
    /\ CollIdle
    /\ FilesIdle
    /\ ScrollIdle
    /\ AuthIdle
    /\ InjectIdle
    /\ SanitizeIdle
    /\ FreeIdle
    /\ ClickIdle
    /\ \E isFirst \in BOOLEAN : \E before \in ScriptOptions :
       \E after \in ScriptOptions : \E mode \in ExecModes :
          exec = [pc |-> "create", isFirst |-> isFirst,
                  beforeOpenScripts |-> before, afterOpenScripts |-> after,
                  mode |-> mode, calls |-> <<>>, threw |-> FALSE]

ExecCall(name, pcNext) ==
    [exec EXCEPT !.pc = pcNext, !.calls = Append(@, name)]

\* a driver call threw: control passes to the finally block
ExecThrow == [exec EXCEPT !.pc = "finally", !.threw = TRUE]

\* createPage, which is outside the try block
ExecCreatePage ==
    /\ exec.pc = "create"
    /\ \/ exec' = ExecCall("createPage", "before")
       \/ /\ ~exec.isFirst
          /\ exec' = [exec EXCEPT !.pc = "done", !.threw = TRUE]
    /\ UNCHANGED ExecFrame

\* if (!isFirst && options.beforeOpenScripts?.length) injectScripts(...)
ExecBeforeOpen ==
    /\ exec.pc = "before"
    /\ exec' = IF ~exec.isFirst /\ hasLength(exec.beforeOpenScripts)
               THEN ExecCall("beforeOpenScripts", "goto")
               ELSE [exec EXCEPT !.pc = "goto"]
    /\ UNCHANGED ExecFrame

\* await newPage.goto(url, gotoOptions)
ExecGoto ==
    /\ exec.pc = "goto"
    /\ \/ exec' = ExecCall("goto", "after")
       \/ exec' = ExecThrow
    /\ UNCHANGED ExecFrame

\* if (!isFirst && options.afterOpenScripts?.length) injectScripts(...)
ExecAfterOpen ==
    /\ exec.pc = "after"
    /\ exec' = IF ~exec.isFirst /\ hasLength(exec.afterOpenScripts)
               THEN ExecCall("afterOpenScripts", "check")
               ELSE [exec EXCEPT !.pc = "check"]
    /\ UNCHANGED ExecFrame

\* PageProcessor.checkPageFree and the early return on a free page
ExecCheckFree ==
    /\ exec.pc = "check"
    /\ \/ \E isPageFree \in BOOLEAN :
             exec' = ExecCall("checkPageFree",
                              IF isPageFree THEN "finally" ELSE "process")
       \/ exec' = ExecThrow
    /\ UNCHANGED ExecFrame

\* processBlocks or processPage, by the configured handlers
ExecProcess ==
    /\ exec.pc = "process"
    /\ \/ exec' = IF exec.mode = "block"
                  THEN ExecCall("processBlocks", "finally")
                  ELSE IF exec.mode = "page"
                  THEN ExecCall("processPage", "finally")
                  ELSE [exec EXCEPT !.pc = "finally"]
       \/ /\ exec.mode # "none"
          /\ exec' = ExecThrow
    /\ UNCHANGED ExecFrame

\* finally: newPage.close()
ExecFinally ==
    /\ exec.pc = "finally"
    /\ exec' = ExecCall("close", "done")
    /\ UNCHANGED ExecFrame

ExecNext ==
    \/ ExecCreatePage
    \/ ExecBeforeOpen
    \/ ExecGoto
    \/ ExecAfterOpen
    \/ ExecCheckFree
    \/ ExecProcess
    \/ ExecFinally

ExecSpec == ExecInit /\ [][ExecNext]_vars

\* ------------------------------------------------------ sanitizeFilename
\* a file name is the sequence of its characters; "ctl" stands for a control
\* character (ASCII 0-31, 127)

MaxFilenameLength == 200

MaxTail == 3

NameChars == {"a", ".", " ", "/", "ctl"}

\* [<>:"/\\|?*]
IllegalChars == {"<", ">", ":", "\"", "/", "\\", "|", "?", "*"}

\* [\s.] once the control characters are gone
TrimChars == {" ", "."}

Unnamed == <<"u", "n", "n", "a", "m", "e", "d">>

\* the names tried: a run of letters of a length around the limit, or none,
\* followed by up to MaxTail characters
PadLengths == {0, MaxFilenameLength - 2, MaxFilenameLength - 1,
               MaxFilenameLength}

Filenames ==
    {[k \in 1..n |-> "a"] \o tail :
        n \in PadLengths, tail \in {<<>>} \cup SeqsUpTo(NameChars, MaxTail)}

\* .replace(/[<>:"/\\|?*]/g, "_")
replaceIllegal(s) ==
    [k \in DOMAIN s |-> IF s[k] \in IllegalChars THEN "_" ELSE s[k]]

\* .replace(/[\x00-\x1F\x7F]/g, "")
removeControl(s) == SelectSeq(s, LAMBDA c : c # "ctl")

\* .replace(/\.{2,}/g, ".")
collapseDots(s) ==
    LET marked == [k \in DOMAIN s |->
                     IF k > 1 /\ s[k] = "." /\ s[k - 1] = "." THEN "dropped"
                     ELSE s[k]]
    IN SelectSeq(marked, LAMBDA c : c # "dropped")

\* .replace(/^[\s.]+|[\s.]+$/g, "")
trimEnds(s) ==
    LET kept == {k \in DOMAIN s : s[k] \notin TrimChars}
    IN IF kept = {} THEN <<>>
       ELSE SubSeq(s, CHOOSE k \in kept : \A j \in kept : k <= j,
                      CHOOSE k \in kept : \A j \in kept : k >= j)

\* .slice(0, n)
sliceTo(s, n) == SubSeq(s, 1, IF Len(s) < n THEN Len(s) ELSE n)

sanitizeFilename(filename) ==
    LET sanitized ==
          sliceTo(trimEnds(collapseDots(removeControl(
                     replaceIllegal(filename)))), MaxFilenameLength)
    IN IF sanitized = <<>> THEN Unnamed ELSE sanitized

SanitizeInit ==
    /\ MainIdle
    /\ NameIdle
    /\ PauseIdle
    /\ ProgIdle
    /\ SchedIdle
    /\ CollIdle
    /\ FilesIdle
    /\ ScrollIdle
    /\ AuthIdle
    /\ InjectIdle
    /\ ExecIdle
    /\ FreeIdle
    /\ ClickIdle
    /\ \E filename \in Filenames :
          san = [applied |-> 0, filename |-> filename, once |-> <<>>,
                 value |-> filename]

\* sanitizeFilename applied to the name, then to its own result
SanitizeApply ==
    /\ san.applied \in {0, 1}
    /\ LET out == sanitizeFilename(san.value)
       IN san' = [san EXCEPT !.applied = @ + 1, !.value = out,
                             !.once = IF san.applied = 0 THEN out ELSE @]
    /\ UNCHANGED SanitizeFrame

SanitizeNext == SanitizeApply

SanitizeSpec == SanitizeInit /\ [][SanitizeNext]_vars

\* --------------------------------------------------------- free recorder
\* FreeRecorder on its own: add calls, save(), then initialize() of a fresh
\* recorder on the saved file. Paths are sequences of characters.

MaxAdds == 3

FreePagePaths == {<<"p">>, <<"p", "/", "q">>}

\* the names of free blocks: plain ones and one that holds a slash
FreeBlockNames == {<<"x">>, <<"y">>, <<"x", "/", "y">>}

\* Array.from(set).sort(): the elements of the set, each once, in a fixed
\* order
sortedList(S) ==
    CHOOSE list \in [1..Cardinality(S) -> S] :
        \A e \in S : \E k \in 1..Cardinality(S) : list[k] = e

\* blockPath.split("/") and parts[parts.length - 1]
lastPart(blockPath) ==
    LET slashes == {k \in DOMAIN blockPath : blockPath[k] = "/"}
    IN IF slashes = {} THEN blockPath
       ELSE SubSeq(blockPath,
                   (CHOOSE k \in slashes : \A j \in slashes : j <= k) + 1,
                   Len(blockPath))

\* FreeRecorder.save: the record written to free.json
freeRecordOf(r) ==
    [totalPages |-> Cardinality(r.pages),
     totalBlocks |-> Cardinality(r.blocks),
     pages |-> sortedList(r.pages),
     blocks |-> sortedList(r.blocks),
     blocksByPage |->
        [pagePath \in {g[1] : g \in r.blocksByPage} |->
            LET blockPaths ==
                  sortedList({g[2] : g \in {h \in r.blocksByPage :
                                               h[1] = pagePath}})
            IN [k \in DOMAIN blockPaths |-> lastPart(blockPaths[k])]]]

\* FreeRecorder.initialize on a fresh recorder: the sets read from the
\* record, the block paths rebuilt as `${pagePath}/${blockName}`
initializeFrom(record) ==
    [pages |-> {record.pages[k] : k \in DOMAIN record.pages},
     blocks |-> {record.blocks[k] : k \in DOMAIN record.blocks},
     blocksByPage |->
        UNION {{<<pagePath, BlockPath(pagePath, record.blocksByPage[pagePath][k])>> :
                   k \in DOMAIN record.blocksByPage[pagePath]} :
               pagePath \in DOMAIN record.blocksByPage}]

FreeEmpty == [pages |-> {}, blocks |-> {}, blocksByPage |-> {}]

FreeInit ==
    /\ MainIdle
    /\ NameIdle
    /\ PauseIdle
    /\ ProgIdle
    /\ SchedIdle
    /\ CollIdle
    /\ FilesIdle
    /\ ScrollIdle
    /\ AuthIdle
    /\ InjectIdle
    /\ ExecIdle
    /\ SanitizeIdle
    /\ ClickIdle
    /\ rec = [pc |-> "adding", adds |-> 0, recorder |-> FreeEmpty,
              file |-> freeRecordOf(FreeEmpty), fresh |-> FreeEmpty]

\* addFreePage(pagePath)
FreeAddPage ==
    /\ rec.pc = "adding"
    /\ rec.adds < MaxAdds
    /\ \E pagePath \in FreePagePaths :
          rec' = [rec EXCEPT !.adds = @ + 1,
                             !.recorder.pages = @ \cup {pagePath}]
    /\ UNCHANGED FreeFrame

\* addFreeBlock(blockPath, pagePath) as performPreChecks calls it
FreeAddBlock ==
    /\ rec.pc = "adding"
    /\ rec.adds < MaxAdds
    /\ \E pagePath \in FreePagePaths : \E blockName \in FreeBlockNames :
          LET blockPath == BlockPath(pagePath, blockName)
          IN rec' = [rec EXCEPT
                        !.adds = @ + 1,
                        !.recorder.blocks = @ \cup {blockPath},
                        !.recorder.blocksByPage =
                            @ \cup {<<pagePath, blockPath>>}]
    /\ UNCHANGED FreeFrame

\* save()
FreeSave ==
    /\ rec.pc = "adding"
    /\ rec' = [rec EXCEPT !.pc = "saved", !.file = freeRecordOf(rec.recorder)]
    /\ UNCHANGED FreeFrame

\* initialize() of a fresh FreeRecorder for the same file
FreeInitialize ==
    /\ rec.pc = "saved"
    /\ rec' = [rec EXCEPT !.pc = "loaded", !.fresh = initializeFrom(rec.file)]
    /\ UNCHANGED FreeFrame

FreeNext == FreeAddPage \/ FreeAddBlock \/ FreeSave \/ FreeInitialize

FreeSpec == FreeInit /\ [][FreeNext]_vars

\* --------------------------------------------------------- clickAndVerify
\* One call of the function createClickAndVerify returns. The click and the
\* verification each resolve or reject; every await of the call settles.

MaxRetries == 3

DefaultRetries == 3

\* options?.retries, given or left undefined
RetriesOptions == [given : BOOLEAN, value : 0..MaxRetries]

\* options?.timeout, given or left undefined
TimeoutOptions == [given : BOOLEAN, value : 0..1]

\* options?.timeout ?? 0
timeoutOf(option) == IF option.given THEN option.value ELSE 0

\* options?.retries ?? 3
retriesOf(option) == IF option.given THEN option.value ELSE DefaultRetries

moreAttemptsInclusive(i, retries) == i <= retries

\* the loop condition i < retries
moreAttempts(i, retries) == i < retries

ClickInit ==
    /\ MainIdle
    /\ NameIdle
    /\ PauseIdle
    /\ ProgIdle
    /\ SchedIdle
    /\ CollIdle
    /\ FilesIdle
    /\ ScrollIdle
    /\ AuthIdle
    /\ InjectIdle
    /\ ExecIdle
    /\ SanitizeIdle
    /\ FreeIdle
    /\ \E option \in RetriesOptions : \E limit \in TimeoutOptions :
       \E debug \in BOOLEAN :
          clk = [pc |-> "loop", retries |-> retriesOf(option),
                 timeout |-> timeoutOf(limit), i |-> 0, clicks |-> 0,
                 clickOptions |-> "none", verified |-> FALSE,
                 isDebugMode |-> debug, message |-> "none"]

\* the catch block for the attempt clk.i: continue unless it was the last
ClickCatch ==
    IF clk.i < clk.retries - 1
    THEN [clk EXCEPT !.pc = "loop", !.i = @ + 1]
    ELSE [clk EXCEPT !.pc = IF clk.isDebugMode THEN "pause" ELSE "threw",
                     !.message = "click.failed"]

\* the head of the for loop; past the last attempt the call throws
ClickLoop ==
    /\ clk.pc = "loop"
    /\ clk' = IF moreAttempts(clk.i, clk.retries)
              THEN [clk EXCEPT !.pc = "click"]
              ELSE [clk EXCEPT
                       !.pc = IF clk.isDebugMode THEN "pause" ELSE "threw",
                       !.message = "click.verifyFailed"]
    /\ UNCHANGED ClickFrame

\* await locator.click({ timeout }) when timeout > 0, locator.click()
\* otherwise: resolves or rejects
ClickClick ==
    /\ clk.pc = "click"
    /\ \E clicked \in BOOLEAN :
          LET with == IF clk.timeout > 0 THEN "timeout" ELSE "default"
          IN clk' = IF clicked
                    THEN [clk EXCEPT !.pc = "verify", !.clicks = @ + 1,
                                     !.clickOptions = with]
                    ELSE [ClickCatch EXCEPT !.clicks = @ + 1,
                                            !.clickOptions = with]
    /\ UNCHANGED ClickFrame

\* await actualVerifyFn(): true, false or a rejection
ClickVerify ==
    /\ clk.pc = "verify"
    /\ \E result \in {"true", "false", "throws"} :
          clk' = CASE result = "true" ->
                        [clk EXCEPT !.pc = "returned", !.verified = TRUE]
                   [] result = "false" ->
                        [clk EXCEPT !.pc = "loop", !.i = @ + 1]
                   [] OTHER -> ClickCatch
    /\ UNCHANGED ClickFrame

\* await page.pause() in debug mode, then the throw
ClickPause ==
    /\ clk.pc = "pause"
    /\ clk' = [clk EXCEPT !.pc = "threw"]
    /\ UNCHANGED ClickFrame

ClickNext == ClickLoop \/ ClickClick \/ ClickVerify \/ ClickPause

ClickSpec == ClickInit /\ [][ClickNext]_vars /\ WF_vars(ClickNext)

TypeOK ==
    /\ cfg \in Configs
    /\ runPc \in {"start", "links", "cleanup", "cleanupThrow", "returned",
                  "thrown", "exited"}
    /\ \A i \in Tasks :
          /\ pc[i] \in {"queued", "goto", "check", "locate", "blocks", "page",
                        "finally", "settle", "done", "killed"}
          /\ err[i] \in ErrKinds
          /\ nblocks[i] \in 0..MaxBlocks
          /\ cnt[i] \in Nat
    /\ completed \in Nat
    /\ failed \in Nat
    /\ run \in 1..2
    /\ meta \in {"absent", "complete", "incomplete"}
    /\ \A i \in Tasks :
          /\ pageMatches[i] \in -1..MaxMatches
          /\ \A k \in 1..MaxBlocks : blockMatches[i][k] \in -1..MaxMatches
    /\ previousCompletedPages \in Nat
    /\ firstRun \in [success : BOOLEAN, recorded : BOOLEAN,
                      dispatched : BOOLEAN]

\* ================================================================ claims
\* C1: at every instant the number of link tasks that are inside the limiter
\* callback (slot acquired, not yet settled) is at most config.maxConcurrency.
C1_InFlightAtMostMaxConcurrency ==
    Cardinality({i \in Tasks : pc[i] \in {"goto", "check", "locate", "blocks",
                                          "page", "finally", "settle"}})
        <= cfg.maxConcurrency

\* C1 witness: the limiter is full while another link still waits for a slot
C1_LimiterFullWithTaskWaiting ==
    /\ cfg.entry = "crawl"
    /\ runPc = "links"
    /\ \E i \in Tasks : pc[i] = "queued"
    /\ Cardinality({i \in Tasks : pc[i] \in {"goto", "check", "locate",
                                             "blocks", "page", "finally",
                                             "settle"}})
          = cfg.maxConcurrency

\* C2: within one executeAll, LinkExecutor.execute is entered at most once
\* per link path: no two tasks of the same link have both passed the gates.
C2_ExecuteAtMostOncePerLink ==
    \A i \in Tasks : \A j \in Tasks :
        (/\ i # j
         /\ Link(i) = Link(j)
         /\ pc[i] \in {"goto", "check", "locate", "blocks", "page", "finally",
                       "settle"}
            \/ outcome[i] \in {"completed", "failed", "aborted"})
        => ~(pc[j] \in {"goto", "check", "locate", "blocks", "page",
                        "finally", "settle"}
             \/ outcome[j] \in {"completed", "failed", "aborted"})

\* C3: when a crawl task gets its slot the gates are applied in the order
\* completed page, known free page, dispatch: a link whose page is complete
\* is counted as a success and never navigated; a link that is not complete
\* but in the preloaded free set is re-added to the free record, counted as
\* a success and never navigated; only the other links reach execute.
C3_GatesInOrder ==
    /\ [](\A i \in Tasks :
             outcome[i] \in {"skipCompleted", "skipKnownFree"}
             => pc[i] = "done" /\ i \notin openTabs /\ i \notin openCtx)
    /\ [][\A i \in Tasks :
             (cfg.entry = "crawl" /\ pc[i] = "queued"
              /\ pc'[i] \notin {"queued", "killed"})
             => IF PagePath(i) \in mem.completedPages
                THEN /\ outcome'[i] = "skipCompleted"
                     /\ pc'[i] = "done"
                     /\ completed' = completed + 1
                     /\ mem' = mem
                ELSE IF Link(i) \in knownFreePages
                THEN /\ outcome'[i] = "skipKnownFree"
                     /\ pc'[i] = "done"
                     /\ completed' = completed + 1
                     /\ Link(i) \in mem'.freePages
                ELSE /\ pc'[i] = "goto"
                     /\ outcome'[i] = "none"]_vars

\* C3 witness: one link was skipped as complete although it is also in the
\* preloaded free set, and another link was skipped as known free
C3_BothGatesTaken ==
    /\ \E i \in Tasks : /\ outcome[i] = "skipCompleted"
                        /\ Link(i) \in knownFreePages
    /\ \E j \in Tasks : /\ outcome[j] = "skipKnownFree"
                        /\ Link(j) \in mem.freePages

\* C4: a block processor marks its page complete only if every block it
\* located on the page was processed successfully (handler returned, or the
\* block was skipped as already complete or free), in each processing mode.
C4_PageCompleteOnlyIfEveryBlockSucceeded ==
    \A i \in Tasks :
        pageMarked[i] => \A k \in 1..nblocks[i] : res[i][k] \in Success

\* C5: a block path enters completedBlocks only in the step of its own block
\* task in which the handler returned without error; a block whose handler
\* threw, whose name was not obtained or whose page was skipped for a
\* mismatch is not added.
C5_BlockCompleteOnlyAfterHandlerReturned ==
    [][\A bp \in mem'.completedBlocks \ mem.completedBlocks :
          \E i \in Tasks :
              /\ pc[i] = "blocks"
              /\ batch[i] # <<>>
              /\ bp = BlockPath(PagePath(i), BlockName(Head(batch[i])))
              /\ res'[i][Head(batch[i])] = "ok"
              /\ batch'[i] = Tail(batch[i])]_vars

\* C5 witness: on one page a block whose handler returned is in
\* completedBlocks and a block whose handler threw is not
C5_OneBlockMarkedOneNot ==
    \E i \in Tasks : \E k \in 1..nblocks[i] : \E l \in 1..nblocks[i] :
        /\ res[i][k] = "ok"
        /\ BlockPath(PagePath(i), BlockName(k)) \in mem.completedBlocks
        /\ res[i][l] = "throw"
        /\ BlockPath(PagePath(i), BlockName(l)) \notin mem.completedBlocks

\* C6: a non-abort error thrown by one block's handler does not end the
\* page's loop: the task goes on with the rest of the batch, so that at the
\* end of the loop every located block has been processed, each block whose
\* handler succeeded is in completedBlocks and no block whose handler failed
\* was added to completedBlocks by this run.
C6_HandlerErrorDoesNotStopSiblings ==
    /\ [][\A i \in Tasks :
             (threw'[i] /\ ~threw[i])
             => /\ pc'[i] = "blocks"
                /\ batch'[i] = Tail(batch[i])
                /\ mem'.completedBlocks = mem.completedBlocks]_vars
    /\ [](\A i \in Tasks :
             (threw[i] /\ pc[i] = "finally" /\ err[i] = "none")
             => \A k \in 1..nblocks[i] :
                   /\ res[i][k] # "none"
                   /\ res[i][k] = "ok"
                      => BlockPath(PagePath(i), BlockName(k))
                            \in mem.completedBlocks
                   /\ (res[i][k] \in {"throw", "aborted"}
                       /\ \A j \in Tasks : j # i => Link(j) # Link(i))
                      => BlockPath(PagePath(i), BlockName(k))
                            \notin mem.completedBlocks \ disk.completedBlocks)

\* C6 witness: the loop of a page ended after the handler of its first block
\* threw and the handler of a later block succeeded
C6_LaterBlockSucceededAfterThrow ==
    \E i \in Tasks : \E k \in 1..nblocks[i] : \E l \in 1..nblocks[i] :
        /\ pc[i] = "finally"
        /\ err[i] = "none"
        /\ k < l
        /\ res[i][k] = "throw"
        /\ res[i][l] = "ok"

C8_TabsClosedBeforeSlotReleased ==
    /\ \A i \in Tasks :
          pc[i] \in {"queued", "settle", "done"}
          => i \notin openTabs /\ i \notin openCtx
    /\ Cardinality(openTabs) <= cfg.maxConcurrency
    /\ Cardinality(openCtx) <= cfg.maxConcurrency

\* C8 witness: a task that had its own tab and context has left execute with
\* an error while another task left it normally
C8_FailedTaskLeftNoTab ==
    /\ cfg.storageState
    /\ \E i \in Tasks : i # 1 /\ pc[i] = "done" /\ outcome[i] = "failed"
    /\ \E j \in Tasks : pc[j] = "done" /\ outcome[j] = "completed"

\* C9: when a crawl run has returned or thrown, every entry added in memory
\* to the progress record, the free record and the filename mapping is on
\* disk.
C9_EverythingSavedWhenRunEnds ==
    runPc \in {"returned", "thrown"}
    => /\ mem.completedPages \subseteq disk.completedPages
       /\ mem.completedBlocks \subseteq disk.completedBlocks
       /\ mem.freePages \subseteq disk.freePages
       /\ mem.mapping \subseteq disk.mapping

\* C10: when the process has exited from the SIGINT / SIGTERM handler, every
\* recorder (progress, free record, filename mapping) is flushed to disk.
C10_SignalHandlerFlushesEveryRecorder ==
    runPc = "exited"
    => /\ mem.completedPages \subseteq disk.completedPages
       /\ mem.completedBlocks \subseteq disk.completedBlocks
       /\ mem.mapping \subseteq disk.mapping
       /\ mem.freePages \subseteq disk.freePages

C12_BlockPrefixCompleteOrInFlight ==
    (\A bp \in loaded.completedBlocks :
        SubSeq(bp, 1, Len(bp) - 2) \in loaded.completedPages)
    => \A bp \in mem.completedBlocks :
          \/ SubSeq(bp, 1, Len(bp) - 2) \in mem.completedPages
          \/ \E i \in Tasks :
                /\ PagePath(i) = SubSeq(bp, 1, Len(bp) - 2)
                /\ pc[i] \in {"goto", "check", "locate", "blocks", "page",
                              "finally", "settle"}

\* C12 amended: every key added to completedBlocks in this run has the
\* page path of a link task that was dispatched in this run, whether that
\* task is in flight or has ended, with or without its page marked complete.
C12_BlockPrefixOfDispatchedLink ==
    runPc # "exited"
    => \A bp \in mem.completedBlocks \ loaded.completedBlocks :
          \E i \in Tasks :
             /\ PagePath(i) = SubSeq(bp, 1, Len(bp) - 2)
             /\ pc[i] \notin {"queued", "killed"}
             /\ outcome[i] \notin {"skipCompleted", "skipKnownFree"}

\* C12 witness: a link task has ended in failure, its page is not complete
\* and a block of the page that it completed is still in completedBlocks
C12_BlockKeptAfterFailedTask ==
    \E i \in Tasks : \E bp \in mem.completedBlocks \ loaded.completedBlocks :
        /\ pc[i] = "done"
        /\ outcome[i] = "failed"
        /\ PagePath(i) = SubSeq(bp, 1, Len(bp) - 2)
        /\ PagePath(i) \notin mem.completedPages

\* C13: within one run no step removes or rewrites an entry of a state
\* recorder: completedPages, completedBlocks, the free pages, the free
\* blocks and their grouping by page only grow.
C13_RecordersOnlyGrow ==
    [][run' = run
       => /\ mem.completedPages \subseteq mem'.completedPages
          /\ mem.completedBlocks \subseteq mem'.completedBlocks
          /\ mem.freePages \subseteq mem'.freePages
          /\ mem.freeBlocks \subseteq mem'.freeBlocks
          /\ mem.blocksByPage \subseteq mem'.blocksByPage]_vars

\* C13 witness: a run that loaded completed blocks and free pages has
\* returned after its link task recorded a free block and a complete page
C13_EntriesAddedToLoadedOnes ==
    /\ runPc = "returned"
    /\ loaded.completedBlocks # {}
    /\ loaded.freePages # {}
    /\ mem.freeBlocks # {}
    /\ mem.completedPages # loaded.completedPages

\* C14: a link task that ends with a "Target page, context or browser has
\* been closed" error changes neither counter; a link task that ends with
\* any other error adds exactly one to failed and nothing to completed, and
\* failed is incremented by nothing else.
C14_AbortUncountedOtherErrorsFailOnce ==
    /\ [][\A i \in Tasks :
             (pc[i] = "settle" /\ pc'[i] = "done")
             => IF err[i] = "abort"
                THEN /\ completed' = completed
                     /\ failed' = failed
                     /\ outcome'[i] = "aborted"
                ELSE IF err[i] # "none"
                THEN /\ completed' = completed
                     /\ failed' = failed + 1
                     /\ outcome'[i] = "failed"
                ELSE failed' = failed]_vars
    /\ [][failed' > failed
          => /\ failed' = failed + 1
             /\ \E i \in Tasks : /\ pc[i] = "settle"
                                 /\ pc'[i] = "done"
                                 /\ err[i] \notin {"none", "abort"}]_vars
    /\ [](runPc \in {"links", "cleanup", "returned"}
          => failed = Cardinality({i \in Tasks : outcome[i] = "failed"}))

\* C14 witness: all links are settled, one ended with the closed-target
\* error and is in neither counter, another ended with another error and is
\* the only failure
C14_OneAbortedOneFailed ==
    /\ runPc = "cleanup"
    /\ \E i \in Tasks : outcome[i] = "aborted" /\ err[i] = "abort"
    /\ \E j \in Tasks : outcome[j] = "failed" /\ err[j] = "error"
    /\ completed = 0
    /\ failed = 1

\* C15: when executeAll has returned, the success count it reports is the
\* number of pages that became complete in this run plus the number of pages
\* that were complete in the progress record when the run started.
C15_SuccessIsNewPlusPreviouslyCompleted ==
    (cfg.entry = "crawl" /\ runPc \in {"cleanup", "returned"})
    => totalCompleted
          = Cardinality(mem.completedPages \ loaded.completedPages)
            + Cardinality(loaded.completedPages)

\* C16: in traditional mode with an expected block count that differs from
\* the number of blocks located, the mismatch is recorded under either
\* setting of ignoreMismatch; with ignoreMismatch=false the page is left at
\* once, no handler runs and neither the page nor a block is marked
\* complete; with ignoreMismatch=true every located block is put in the
\* batch and processed.
C16_MismatchRecordedThenSkippedOrIgnored ==
    /\ [][\A i \in Tasks :
             (/\ cfg.mode = "traditional"
              /\ cfg.mismatch # "noExpected"
              /\ pc[i] = "locate"
              /\ pc'[i] \notin {"locate", "killed"}
              /\ nblocks'[i] # ExpectedBlockCount)
             => /\ <<Link(i), ExpectedBlockCount, nblocks'[i]>>
                      \in mem'.mismatches
                /\ IF cfg.mismatch = "skipOnMismatch"
                   THEN /\ pc'[i] = "finally"
                        /\ err'[i] = "none"
                        /\ batch'[i] = <<>>
                        /\ mem'.completedPages = mem.completedPages
                        /\ mem'.completedBlocks = mem.completedBlocks
                   ELSE /\ pc'[i] = "blocks"
                        /\ batch'[i] = Ascending(1..nblocks'[i])]_vars
    /\ [](\A i \in Tasks :
             (/\ cfg.mode = "traditional"
              /\ queries[i] > 0
              /\ nblocks[i] # ExpectedBlockCount)
             => IF cfg.mismatch = "skipOnMismatch"
                THEN /\ pc[i] = "finally"
                     /\ \A k \in 1..MaxBlocks : res[i][k] = "none"
                     /\ ~pageMarked[i]
                     /\ mem.completedPages = loaded.completedPages
                     /\ mem.completedBlocks = loaded.completedBlocks
                ELSE (pc[i] = "finally" /\ err[i] = "none")
                     => \A k \in 1..nblocks[i] : res[i][k] # "none")

\* C16 witness: a page with an expected count of one exposed two blocks,
\* ignoreMismatch was set, the mismatch is on record and both blocks were
\* handled
C16_MismatchIgnoredAllBlocksHandled ==
    \E i \in Tasks :
        /\ cfg.mismatch = "ignoreMismatch"
        /\ pc[i] = "finally"
        /\ nblocks[i] = 2
        /\ <<Link(i), ExpectedBlockCount, 2>> \in mem.mismatches
        /\ \A k \in 1..2 : res[i][k] = "ok"
        /\ pageMarked[i]

C18_FreePageRecordedMarkedAndCounted ==
    /\ [][\A i \in Tasks :
             (/\ cfg.entry = "crawl"
              /\ pc[i] = "check"
              /\ pc'[i] \notin {"check", "killed"}
              /\ pageMatches'[i] = 1)
             => /\ Link(i) \in mem'.freePages
                /\ PagePath(i) \in mem'.completedPages
                /\ mem'.completedBlocks = mem.completedBlocks
                /\ mem'.mapping = mem.mapping
                /\ pc'[i] = "finally"
                /\ err'[i] = "none"]_vars
    /\ [](\A i \in Tasks :
             (cfg.entry = "crawl" /\ pageMatches[i] = 1)
             => /\ pc[i] \in {"finally", "settle", "done"}
                /\ err[i] = "none"
                /\ queries[i] = 0
                /\ \A k \in 1..MaxBlocks : res[i][k] = "none"
                /\ Link(i) \in mem.freePages
                /\ PagePath(i) \in mem.completedPages
                /\ pc[i] \in {"settle", "done"}
                   => /\ i \notin openTabs
                      /\ i \notin openCtx
                      /\ i = 1 => ~primaryOpen
                /\ pc[i] = "done" => outcome[i] = "completed")
    /\ [][\A i \in Tasks :
             (pageMatches[i] = 1 /\ pc[i] = "settle" /\ pc'[i] = "done")
             => completed' = completed + 1 /\ failed' = failed]_vars

\* C18 witness: a link that was found free on its own tab is settled as a
\* success, recorded as free and complete, with its tab and context closed
C18_FreeLinkSettledAsSuccess ==
    \E i \in Tasks :
        /\ i # 1
        /\ cfg.storageState
        /\ pageMatches[i] = 1
        /\ pc[i] = "done"
        /\ outcome[i] = "completed"
        /\ Link(i) \in mem.freePages \ loaded.freePages
        /\ PagePath(i) \in mem.completedPages \ loaded.completedPages

\* C19: a free check that counts more than one match, on a page or in a
\* block, throws: nothing is recorded in that step, the block and the rest
\* of the batch stay unprocessed, the error leaves the link task, which
\* goes straight to its finally block without marking the page complete,
\* and the scheduler counts the link as failed; exactly one match means
\* free and no match means not free.
C19_AmbiguousFreeCheckFailsThePage ==
    /\ [][\A i \in Tasks :
             (pc[i] = "check" /\ pc'[i] \notin {"check", "killed"})
             => IF pageMatches'[i] = 0
                THEN /\ pc'[i] \in {"locate", "page"}
                     /\ err'[i] = "none"
                     /\ mem' = mem
                ELSE IF pageMatches'[i] = 1
                THEN /\ err'[i] = "none"
                     /\ pc'[i] \in {"finally", "done"}
                     /\ cfg.entry = "crawl" => Link(i) \in mem'.freePages
                ELSE /\ err'[i] = "ambiguous"
                     /\ pc'[i] = "finally"
                     /\ mem' = mem]_vars
    /\ [][\A i \in Tasks : \A k \in 1..MaxBlocks :
             (blockMatches'[i][k] # -1 /\ blockMatches[i][k] = -1)
             => IF blockMatches'[i][k] = 0
                THEN /\ res'[i][k] \in {"ok", "throw", "aborted"}
                     /\ err'[i] = "none"
                ELSE IF blockMatches'[i][k] = 1
                THEN /\ res'[i][k] = "free"
                     /\ err'[i] = "none"
                ELSE /\ err'[i] = "ambiguous"
                     /\ pc'[i] = "finally"
                     /\ res'[i] = res[i]
                     /\ batch'[i] = batch[i]
                     /\ cnt'[i] = cnt[i]
                     /\ mem' = mem]_vars
    /\ [][\A i \in Tasks :
             (err'[i] = "ambiguous" /\ err[i] # "ambiguous")
             => \/ pageMatches'[i] > 1
                \/ \E k \in 1..MaxBlocks : blockMatches'[i][k] > 1]_vars
    /\ [](\A i \in Tasks :
             err[i] = "ambiguous"
             => /\ pc[i] \in {"finally", "settle", "done"}
                /\ ~pageMarked[i]
                /\ (pc[i] = "done" /\ cfg.entry = "crawl")
                   => outcome[i] = "failed" /\ failed > 0
                /\ (pc[i] = "done" /\ cfg.entry = "test")
                   => runPc = "thrown")

\* C19 witness: the first block of a page was handled, the free check of the
\* second block counted two matches, and the link is settled as failed with
\* its page not complete
C19_SecondBlockAmbiguousLinkFailed ==
    \E i \in Tasks :
        /\ cfg.entry = "crawl"
        /\ err[i] = "ambiguous"
        /\ pageMatches[i] = 0
        /\ pc[i] = "done"
        /\ outcome[i] = "failed"
        /\ BlockPath(PagePath(i), BlockName(1)) \in
              mem.completedBlocks \ loaded.completedBlocks
        /\ PagePath(i) \notin mem.completedPages

C21_AtMostThreeExtractsThenFailure ==
    LET t == nameTry
        returned == t.stage \in {"checks", "handler", "done"}
    IN /\ t.attempt <= 3
       /\ t.stage = "wait" => t.waits = 200 * (t.attempt - 1)
       /\ (t.stage = "extract" /\ t.attempt > 0) => t.waits = 200 * t.attempt
       /\ returned
          => /\ t.waits = 200 * (t.attempt - 1)
             /\ \A j \in 1..(t.attempt - 1) : t.results[j] \in {"null", ""}
             /\ IF \E j \in 1..3 : t.results[j] \notin {"null", ""}
                THEN t.name = t.results[t.attempt] /\ t.name \notin {"null", ""}
                ELSE t.attempt = 3 /\ t.name = "null"
       /\ (t.stage = "done" /\ \A j \in 1..3 : t.results[j] \in {"null", ""})
          => /\ t.counted = "failure"
             /\ ~t.handler
             /\ ~t.marked

\* C21 witness: three calls returned nothing, a fourth would have returned
\* a name, and the block has been counted as a failure after two waits
C21_GaveUpAfterThirdExtract ==
    /\ nameTry.stage = "done"
    /\ nameTry.attempt = 3
    /\ nameTry.waits = 400
    /\ nameTry.results[4] = "Hero 1"
    /\ nameTry.counted = "failure"

\* C22: page.pause() is invoked only when one of PWDEBUG, PW_TEST_DEBUG and
\* PLAYWRIGHT_INSPECTOR is set: no error path pauses a page in a run
\* without them.
C22_PauseOnlyInDebugMode ==
    pauseRun.paused
    => \E v \in DebugVars : pauseRun.env[v] # "unset"

\* C23: in progressive mode no block is processed twice within one page
\* visit: processSingleBlock takes a block of the batch only when the visit
\* has no result for that block yet.
C23_NoBlockProcessedTwice ==
    [][\A i \in DOMAIN pc :
          (/\ cfg.mode = "progressive"
           /\ pc[i] = "blocks"
           /\ batch[i] # <<>>
           /\ batch'[i] = Tail(batch[i])
           /\ pc'[i] # "killed")
          => res[i][Head(batch[i])] = "none"]_vars

\* C24: processBlocksProgressively terminates on every page whose locator
\* stops returning new blocks, also when a name is never obtained or a
\* handler fails: the call returns or throws in the end.
C24_ProgressiveLoopTerminates == <>(prog.pc \in {"done", "threw"})

\* C25 as stated: the task of collections[0] runs before any second task
\* is dispatched: while it is in flight every other task is still queued.
C25_SecondTaskWaitsForFirst ==
    (cfg.entry = "crawl" /\ pc[1] \notin {"queued", "done", "killed"})
    => \A i \in Tasks \ {1} : pc[i] = "queued"

\* C25: only the task of collections[0] works on the primary page and every
\* other task in flight works on a tab of its own; the first task is the
\* first to enter the limiter, and other tasks may be dispatched while it
\* is in flight.
C25_OnlyFirstTaskOnPrimaryPage ==
    cfg.entry = "crawl"
    => /\ \A i \in Tasks :
             pc[i] \in {"goto", "check", "locate", "blocks", "page", "finally"}
             => /\ i \in openTabs <=> i # 1
                /\ i = 1 => primaryOpen
       /\ pc[1] = "queued" => \A i \in Tasks : pc[i] \in {"queued", "killed"}

\* the first task is on the primary page and the second on its own tab at
\* the same time
C25_BothTasksInFlight ==
    /\ cfg.entry = "crawl"
    /\ Len(cfg.collections) = 2
    /\ pc[1] = "blocks"
    /\ pc[2] = "blocks"
    /\ primaryOpen
    /\ openTabs = {2}

\* C26: with maxConcurrency 1 at most one link is in flight and the tasks
\* enter in collections order; for the same per-link outcomes the final
\* completedPages, completedBlocks, free pages and counters equal those of
\* the run with a larger maxConcurrency.
C26_SequentialRunEquivalentToConcurrent ==
    sched.collections # <<>>
    => LET s == sched.run["sequential"]
           c == sched.run["concurrent"]
       IN /\ SchedActive(s) <= 1
          /\ \A k \in 1..Len(s.started) : s.started[k] = k
          /\ (SchedAllSettled("sequential") /\ SchedAllSettled("concurrent"))
             => /\ s.completedPages = c.completedPages
                /\ s.completedBlocks = c.completedBlocks
                /\ s.freePages = c.freePages
                /\ s.completed = c.completed
                /\ s.failed = c.failed

\* C27: when collect.json exists as the collect phase is entered, through
\* either entry point and whatever is configured, the start URL is not
\* navigated, nothing is extracted and collect.json is left unchanged.
C27_ExistingCollectFileSkipsCollection ==
    (coll.pc # "idle" /\ coll.file0 # NoFile)
    => /\ ~coll.navigated
       /\ coll.extracted = NoFile
       /\ coll.file = coll.file0

\* C28: no two blocks of a run write the same output path: every file the
\* auto-extractor writes lies under the block path of the block it was
\* extracted from.
C28_BlocksWriteDisjointPaths ==
    /\ \A w1 \in files.written : \A w2 \in files.written :
          w1.path = w2.path => w1.block = w2.block
    /\ \A w \in files.written :
          LET b == files.blocks[w.block]
          IN IsPrefix(BlockPath(b.page, BlockName(b.k)), w.path)

\* C29 as stated: whenever the page handler throws, the page is not marked
\* complete, the tab is closed and the scheduler counts the link as failed.
C29_PageHandlerErrorFailsTheLink ==
    /\ [](\A i \in Tasks :
             (cfg.entry = "crawl" /\ pageThrew[i] /\ pc[i] = "done")
             => (outcome[i] = "failed" /\ i \notin openTabs))
    /\ [][\A i \in Tasks :
             (pageThrew'[i] /\ ~pageThrew[i]) => mem' = mem]_vars

\* C29: an error of the page handler always leaves processPage: the step
\* marks nothing and hands the error on; the tab (and the context) of the
\* task is closed before the task settles; and the scheduler counts the
\* link as failed, unless the error is the closed-page error of a user
\* abort, which is counted neither as failed nor as completed.
C29_PageHandlerErrorReRaised ==
    /\ [](\A i \in Tasks :
             (cfg.entry = "crawl" /\ pageThrew[i])
             => /\ err[i] # "none"
                /\ pc[i] \in {"settle", "done"}
                   => /\ i \notin openTabs
                      /\ i \notin openCtx
                      /\ i = 1 => ~primaryOpen
                /\ pc[i] = "done"
                   => outcome[i] =
                        (IF err[i] = "abort" THEN "aborted" ELSE "failed"))
    /\ [][\A i \in Tasks :
             (pageThrew'[i] /\ ~pageThrew[i])
             => (mem' = mem /\ err'[i] # "none")]_vars

\* the page handlers of two links threw, one an ordinary error and one the
\* closed-page error; both tasks have settled and no tab is left
C29_OneFailedOneAbortedPage ==
    /\ cfg.entry = "crawl"
    /\ cfg.mode = "page"
    /\ Len(cfg.collections) = 2
    /\ \A i \in Tasks : pageThrew[i] /\ pc[i] = "done"
    /\ outcome[1] = "failed"
    /\ outcome[2] = "aborted"
    /\ failed = 1
    /\ completed = 0
    /\ openTabs = {}
    /\ PagePath(1) \notin mem.completedPages

\* C30: autoScrollToBottom always returns. It returns success only within
\* the timeout, either with the page within 10 px of the bottom or after
\* three consecutive ticks (never fewer) that read a position within 5 px
\* of the last recorded one; it returns failure when the timeout has
\* elapsed at the head of a tick or a driver call threw; a tick that finds
\* the page at the bottom within the timeout returns success at once.
C30_ScrollReturnsBottomStallOrTimeout ==
    /\ <>(scroll.pc = "done")
    /\ [](scroll.pc = "done"
          => /\ scroll.result \in {"success", "failure"}
             /\ scroll.result = "success"
                => /\ scroll.elapsed <= scroll.timeout
                   /\ scroll.cause \in {"bottom", "stall"}
             /\ scroll.cause = "bottom"
                => atBottom(scroll.reads[Len(scroll.reads)], scroll.height)
             /\ scroll.cause = "stall"
                => /\ Len(scroll.reads) >= StallTicks
                   /\ \A k \in 0..(StallTicks - 1) :
                         Abs(scroll.reads[Len(scroll.reads) - k]
                             - scroll.lastScrollTop) < StallTolerance
             /\ scroll.result = "failure"
                => \/ scroll.cause = "timeout"
                         /\ scroll.elapsed > scroll.timeout
                   \/ scroll.cause = "error")
    /\ [][(/\ scroll.pc = "tick"
           /\ scroll'.pc # "tick"
           /\ scroll'.cause # "error"
           /\ scroll.elapsed <= scroll.timeout
           /\ atBottom(scroll.top, scroll.height))
          => scroll'.result = "success"]_vars

\* the page moved once and then stayed where it was: success by stall after
\* five ticks, three of which read the unchanged position
C30_StalledMidPage ==
    /\ scroll.pc = "done"
    /\ scroll.cause = "stall"
    /\ scroll.reads = <<0, step, step, step, step>>
    /\ ~atBottom(step, scroll.height)

\* C31: ensureAuth invokes the auth handler if and only if a handler is
\* configured and auth.json does not exist; when it returns normally with a
\* handler configured, auth.json exists; when the handler throws, no auth.json
\* is written; and once a run has logged in (the handler was invoked and
\* ensureAuth returned), no later run invokes the handler.
C31_HandlerInvokedOnlyWithoutAuthFile ==
    /\ [][(auth.pc = "start" /\ auth'.pc # "start")
             => (auth'.pc = "handler"
                    <=> (auth.configured /\ auth.file = AuthAbsent))]_vars
    /\ []((auth.pc = "returned" /\ auth.configured)
             => auth.file # AuthAbsent)
    /\ [][(auth.pc = "handler" /\ auth'.pc = "threw")
             => (auth'.file = AuthAbsent /\ auth.file = AuthAbsent)]_vars
    /\ []((auth.pc # "idle") => ~auth.invokedAfterLogin)

\* a second run that replayed the file written by the login of the first
C31_LoginReplayedInNextRun ==
    /\ auth.pc = "returned"
    /\ auth.runs = 2
    /\ auth.logins = 1
    /\ ~auth.invoked
    /\ auth.applied = 1

\* C32: in injectScripts, when at least one listed script is a user script,
\* the user-script API shim is injected exactly once and before every listed
\* script, for both timings; no listed user script is ever injected into a
\* page that has not received the shim.
C32_ShimBeforeEveryUserScript ==
    /\ \A k \in DOMAIN inj.page :
          inj.page[k] = "user" => \E j \in 1..(k - 1) : inj.page[j] = "polyfill"
    /\ Cardinality({k \in DOMAIN inj.page : inj.page[k] = "polyfill"}) <= 1
    /\ (inj.pc = "done" /\ inj.hasUserScript)
          => (inj.page # <<>> /\ Head(inj.page) = "polyfill")

\* C33: for every dispatched link, the first one included, configured
\* afterOpenScripts are injected after goto has completed and before the
\* page-free check and the processing start; beforeOpenScripts are injected
\* before goto for every link except the first.
C33_AfterOpenScriptsOnEveryLink ==
    LET at(name) == {k \in DOMAIN exec.calls : exec.calls[k] = name}
    IN /\ \A c \in at("checkPageFree") :
             hasLength(exec.afterOpenScripts)
                => \E g \in at("goto") : \E a \in at("afterOpenScripts") :
                      g < a /\ a < c
       /\ \A g \in at("goto") :
             (~exec.isFirst /\ hasLength(exec.beforeOpenScripts))
                => \E b \in at("beforeOpenScripts") : b < g
       /\ exec.isFirst => at("beforeOpenScripts") = {}

\* C34: sanitizeFilename is idempotent: for every name s,
\* sanitizeFilename(sanitizeFilename(s)) = sanitizeFilename(s).
C34_SanitizeIdempotent ==
    san.applied = 2 => san.value = san.once

\* C35: every link counted as success by the scheduler is, when the run
\* ends, recorded either as a completed page in the progress record or as a
\* free page in the free recorder.
C35_SuccessfulLinkIsRecorded ==
    (cfg.entry = "crawl" /\ runPc \in {"cleanup", "returned"})
    => \A i \in DOMAIN pc :
          outcome[i] \in {"completed", "skipCompleted", "skipKnownFree"}
          => \/ PagePath(i) \in mem.completedPages
             \/ Link(i) \in mem.freePages

\* C36: when executeAll returns, every link in collections has been
\* accounted for exactly once, as success, as failure, or as an uncounted
\* user abort; hence the reported success count plus the reported failure
\* count never exceeds the total number of links, in a first run and in
\* every re-run.
C36_ReportedCountsWithinTotal ==
    (cfg.entry = "crawl" /\ runPc \in {"cleanup", "returned"})
    => LET counted(kinds) ==
              Cardinality({i \in DOMAIN pc : outcome[i] \in kinds})
       IN /\ completed
                = counted({"completed", "skipCompleted", "skipKnownFree"})
          /\ failed = counted({"failed"})
          /\ counted({"completed", "skipCompleted", "skipKnownFree",
                      "failed", "aborted"}) = Len(cfg.collections)
          /\ totalCompleted + failed <= Len(cfg.collections)

\* C37: meta.json is saved with isComplete=true only if every link in
\* collections was completed or skipped in that run; it is never saved as
\* true when some link task failed or was aborted.
C37_MetaCompleteOnlyIfEveryLinkSucceeded ==
    [][(runPc \in {"cleanup", "cleanupThrow"}
        /\ runPc' \in {"returned", "thrown"}
        /\ meta' = "complete")
       => \A i \in DOMAIN pc :
             outcome[i] \in {"completed", "skipCompleted",
                             "skipKnownFree"}]_vars

C39_FreeRecordRoundTrip ==
    rec.pc = "loaded"
    => /\ rec.fresh.pages = rec.recorder.pages
       /\ rec.fresh.blocks = rec.recorder.blocks
       /\ rec.fresh.blocksByPage = rec.recorder.blocksByPage
       /\ rec.file.totalPages = Len(rec.file.pages)
       /\ rec.file.totalBlocks = Len(rec.file.blocks)

\* C40: clickAndVerify performs at most `retries` clicks, returns normally
\* only immediately after a click whose verification returned true, and
\* otherwise throws after the last attempt; it never returns normally
\* without a successful verification and never clicks again after one.
C40_ClickAndVerifyBounded ==
    /\ [](clk.pc # "idle" => clk.clicks <= clk.retries)
    /\ [][clk'.pc = "returned" /\ clk.pc # "returned"
          => clk.pc = "verify" /\ clk'.verified /\ clk'.clicks = clk.clicks]_vars
    /\ [](clk.pc = "returned" => clk.verified /\ clk.clicks >= 1)
    /\ [](clk.pc \in {"pause", "threw"}
             => ~clk.verified /\ clk.clicks = clk.retries)
    /\ [][clk.pc # "idle" /\ clk'.clicks # clk.clicks => ~clk.verified]_vars
    /\ [][clk.pc \in {"returned", "threw"} => clk' = clk]_vars
    /\ (clk.pc = "loop" ~> clk.pc \in {"returned", "threw"})

\* a call that returned after its third click, two attempts having failed
C40_ReturnedOnLastAttempt ==
    /\ clk.pc = "returned"
    /\ clk.retries = 3
    /\ clk.clicks = 3
    /\ clk.verified

====
